---- MODULE Spec2Model ----
(***************************************************************************)
(* A model of the HederaDeFi client (hedera-defi-js): its request cache,   *)
(* its call-count tracker, the three request paths (mirror node,           *)
(* SaucerSwap, Bonzo), the accessors built on them and the utility         *)
(* functions they use.                                                     *)
(*                                                                         *)
(* JavaScript values are tagged records: the tag t is what typeof and the  *)
(* truthiness test look at.  Strings are sequences of one-character        *)
(* strings, numbers are reduced fractions n/d, NaN is a value of its own.  *)
(***************************************************************************)
EXTENDS Integers, Sequences, FiniteSets, TLC

\* ========================================================================
\* JavaScript values
\* ========================================================================

Undefined == [t |-> "undefined"]

Null == [t |-> "null"]

NaN == [t |-> "nan"]

Abs(a) == IF a < 0 THEN 0 - a ELSE a

RECURSIVE GCD(_, _)
GCD(a, b) == IF b = 0 THEN a ELSE CHOOSE g \in {GCD(x, y) : <<x, y>> \in {<<b, a % b>>}} : TRUE

\* The number n/d (d > 0), kept in lowest terms so that equal numbers are
\* equal records.
Rat(n, d) ==
    CHOOSE r \in {[t |-> "number", n |-> IF x < 0 THEN 0 - (Abs(x) \div g) ELSE x \div g,
                   d |-> y \div g] : <<x, y, g>> \in {<<n, d, GCD(Abs(n), d)>>}} : TRUE

Num(n) == [t |-> "number", n |-> n, d |-> 1]

Str(s) == [t |-> "string", s |-> s]

Bool(b) == [t |-> "boolean", b |-> b]

\* An object: f is the function from its property names to their values.
Obj(f) == [t |-> "object", f |-> f]

Arr(a) == [t |-> "array", a |-> a]

\* A Date whose time value is ms milliseconds.
DateOf(ms) == [t |-> "date", ms |-> ms]

\* The object literal {}.
EmptyObject == Obj(<<>>)

IsNullish(v) == v.t \in {"undefined", "null"}

\* typeof v === 'object' (typeof null is 'object' too).
TypeofObject(v) == v.t \in {"object", "array", "date", "null"}

IsArray(v) == v.t = "array"

\* ToBoolean: what if (v), v || w and v && w test.
Truthy(v) ==
    CASE v.t \in {"undefined", "null", "nan"} -> FALSE
      [] v.t = "number" -> v.n # 0
      [] v.t = "string" -> v.s # <<>>
      [] v.t = "boolean" -> v.b
      [] OTHER -> TRUE

\* a || b
Or(a, b) == IF Truthy(a) THEN a ELSE b

\* v.k for a v that is neither null nor undefined (reading a property of
\* those throws a TypeError: callers test IsNullish first).  A property that
\* is not there reads as undefined.
Get(v, k) == IF v.t = "object" /\ k \in DOMAIN v.f THEN v.f[k] ELSE Undefined

\* v?.k
GetOpt(v, k) == IF IsNullish(v) THEN Undefined ELSE Get(v, k)

IsNumber(v) == v.t = "number"

IsNumeric(v) == v.t \in {"number", "nan"}

\* a + b, a * b, a / b and a > b on values of type number: NaN propagates
\* and compares false, 0 / 0 is NaN (x / 0 for another x is an infinity, which
\* no payload of the model leads to).
Plus(a, b) ==
    CASE IsNumber(a) /\ IsNumber(b) -> Rat(a.n * b.d + b.n * a.d, a.d * b.d)
      [] IsNumeric(a) /\ IsNumeric(b) /\ ~(IsNumber(a) /\ IsNumber(b)) -> NaN

Times(a, b) ==
    CASE IsNumber(a) /\ IsNumber(b) -> Rat(a.n * b.n, a.d * b.d)
      [] IsNumeric(a) /\ IsNumeric(b) /\ ~(IsNumber(a) /\ IsNumber(b)) -> NaN

Divide(a, b) ==
    CASE IsNumber(a) /\ IsNumber(b) /\ b.n > 0 -> Rat(a.n * b.d, a.d * b.n)
      [] IsNumber(a) /\ IsNumber(b) /\ b.n < 0 -> Rat(0 - (a.n * b.d), a.d * (0 - b.n))
      [] IsNumber(a) /\ IsNumber(b) /\ b.n = 0 /\ a.n = 0 -> NaN
      [] IsNumeric(a) /\ IsNumeric(b) /\ ~(IsNumber(a) /\ IsNumber(b)) -> NaN

Greater(a, b) ==
    CASE IsNumber(a) /\ IsNumber(b) -> a.n * b.d > b.n * a.d
      [] IsNumeric(a) /\ IsNumeric(b) /\ ~(IsNumber(a) /\ IsNumber(b)) -> FALSE

\* a <= b.
LessEq(a, b) ==
    CASE IsNumber(a) /\ IsNumber(b) -> a.n * b.d <= b.n * a.d
      [] IsNumeric(a) /\ IsNumeric(b) /\ ~(IsNumber(a) /\ IsNumber(b)) -> FALSE

\* Math.trunc on a number.
Trunc(a) ==
    IF IsNumber(a)
    THEN Num(IF a.n < 0 THEN 0 - (Abs(a.n) \div a.d) ELSE a.n \div a.d)
    ELSE NaN

\* ========================================================================
\* Strings
\* ========================================================================

Digits == {"0", "1", "2", "3", "4", "5", "6", "7", "8", "9"}

DigitValue(c) ==
    CASE c = "0" -> 0 [] c = "1" -> 1 [] c = "2" -> 2 [] c = "3" -> 3 [] c = "4" -> 4
      [] c = "5" -> 5 [] c = "6" -> 6 [] c = "7" -> 7 [] c = "8" -> 8 [] c = "9" -> 9

\* The characters of s as one TLA+ string (for cache keys and messages).
RECURSIVE Join(_)
Join(s) == IF s = <<>> THEN "" ELSE Head(s) \o Join(Tail(s))

\* s.startsWith(p)
StartsWith(s, p) == Len(s) >= Len(p) /\ SubSeq(s, 1, Len(p)) = p

\* s.endsWith(p)
EndsWith(s, p) == Len(s) >= Len(p) /\ SubSeq(s, Len(s) - Len(p) + 1, Len(s)) = p

\* The length of the longest prefix of s made of digits.
DigitPrefixLen(s) ==
    IF \A i \in 1..Len(s) : s[i] \in Digits THEN Len(s)
    ELSE (CHOOSE i \in 1..Len(s) :
              s[i] \notin Digits /\ \A j \in 1..(i - 1) : s[j] \in Digits) - 1

\* The value of the first k of a sequence of digits, and of all of them.
RECURSIVE DigitsValueTo(_, _)
DigitsValueTo(s, k) ==
    IF k = 0 THEN 0 ELSE DigitsValueTo(s, k - 1) * 10 + DigitValue(s[k])

DigitsValue(s) == CHOOSE r \in {DigitsValueTo(d, Len(d)) : d \in {s}} : TRUE

RECURSIVE Power10(_)
Power10(k) == IF k = 0 THEN 1 ELSE 10 * Power10(k - 1)

\* s without its leading white space.
RECURSIVE TrimStart(_)
TrimStart(s) == IF s # <<>> /\ Head(s) = " " THEN TrimStart(Tail(s)) ELSE s

\* parseInt on a string: white space, an optional sign, then the longest run
\* of digits; NaN when there is no digit.
ParseIntChars(s) ==
    LET u == TrimStart(s)
        neg == u # <<>> /\ Head(u) = "-"
        v == IF u # <<>> /\ Head(u) \in {"-", "+"} THEN Tail(u) ELSE u
    IN  CHOOSE r \in {IF k = 0 THEN NaN
                      ELSE Num(IF neg THEN 0 - DigitsValue(SubSeq(w, 1, k))
                               ELSE DigitsValue(SubSeq(w, 1, k))) :
                      <<w, k>> \in {<<v, DigitPrefixLen(v)>>}} : TRUE

\* parseFloat on a string: white space, an optional sign, digits, an optional
\* point and more digits; the longest such prefix is the number, NaN when it
\* holds no digit.
ParseFloatChars(s) ==
    LET u == TrimStart(s)
        neg == u # <<>> /\ Head(u) = "-"
        v == IF u # <<>> /\ Head(u) \in {"-", "+"} THEN Tail(u) ELSE u
        k == DigitPrefixLen(v)
        rest == SubSeq(v, k + 1, Len(v))
        m == IF rest # <<>> /\ Head(rest) = "." THEN DigitPrefixLen(Tail(rest)) ELSE 0
        whole == DigitsValue(SubSeq(v, 1, k))
        frac == DigitsValue(SubSeq(rest, 2, m + 1))
        mag == whole * Power10(m) + frac
    IN  IF k + m = 0 THEN NaN
        ELSE Rat(IF neg THEN 0 - mag ELSE mag, Power10(m))

\* parseInt(v) for the values the accessors hand it: a string is parsed, a
\* number is truncated, anything else has no leading digit.
parseInt(v) ==
    CASE v.t = "string" -> ParseIntChars(v.s)
      [] v.t = "number" -> Trunc(v)
      [] OTHER -> NaN

\* ========================================================================
\* Utility functions (src/utils)
\* ========================================================================

\* Number(v) as isNaN and the arithmetic of parseTimestamp use it, for the
\* values a timestamp field takes.
ToNumber(v) ==
    CASE v.t = "number" -> v
      [] v.t = "nan" -> NaN
      [] v.t = "boolean" -> IF v.b THEN Num(1) ELSE Num(0)
      [] v.t = "object" -> NaN

NanosPerMilli == 1000000

\* parseTimestamp: undefined for an absent, empty or unparsable timestamp,
\* else the Date of timestamp / 1_000_000 milliseconds (a Date keeps the
\* integral part of its time value).
parseTimestamp(timestamp) ==
    IF IsNullish(timestamp) \/ timestamp = Str(<<>>) THEN Undefined
    ELSE LET timestampNum == IF timestamp.t = "string" THEN ParseIntChars(timestamp.s)
                                                        ELSE ToNumber(timestamp)
         IN  IF timestampNum.t = "nan" THEN Undefined
             ELSE DateOf(Trunc(Divide(timestampNum, Num(NanosPerMilli))).n)

\* The pattern without its end anchor: /^0\.0\.\d+/.
validateAccountIdUnanchored(accountId) ==
    /\ Len(accountId) >= 5
    /\ SubSeq(accountId, 1, 4) = <<"0", ".", "0", ".">>
    /\ accountId[5] \in Digits

\* validateAccountId: the pattern /^0\.0\.\d+$/ on the characters of the id.
validateAccountId(accountId) ==
    /\ Len(accountId) >= 5
    /\ SubSeq(accountId, 1, 4) = <<"0", ".", "0", ".">>
    /\ \A i \in 5..Len(accountId) : accountId[i] \in Digits

\* s.replace(/[$,]/g, '')
RECURSIVE StripUsd(_)
StripUsd(s) ==
    IF s = <<>> THEN <<>>
    ELSE IF Head(s) \in {"$", ","} THEN StripUsd(Tail(s))
    ELSE <<Head(s)>> \o StripUsd(Tail(s))

\* parseUsdValue: 0 for a falsy argument and for '0'; a string is stripped
\* of '$' and ',' and handed to parseFloat; a value without a replace method
\* makes the call throw inside the try block, which returns 0.
parseUsdValue(usdString) ==
    IF ~Truthy(usdString) \/ usdString = Str(<<"0">>) THEN Num(0)
    ELSE IF usdString.t = "string" THEN ParseFloatChars(StripUsd(usdString.s))
    ELSE Num(0)

RECURSIVE Power2(_)
Power2(k) == IF k = 0 THEN 1 ELSE 2 * Power2(k - 1)

\* A delay that is not capped.
BackoffDelayUncapped(attempt, baseDelay, maxDelay) == baseDelay * Power2(attempt - 1)

\* retryWithBackoff: Math.min(baseDelay * Math.pow(2, attempt - 1), maxDelay)
BackoffDelay(attempt, baseDelay, maxDelay) ==
    IF baseDelay * Power2(attempt - 1) < maxDelay THEN baseDelay * Power2(attempt - 1)
    ELSE maxDelay

\* ========================================================================
\* Configuration
\* ========================================================================

DefaultCacheTtl == 60

MillisPerSecond == 1000

TinybarsPerHbar == 100000000

MaxLimit == 1000

WarnThreshold == 5

ExcessiveThreshold == 10

\* this.cacheTtl = config.cacheTtl || 60
CacheTtlOf(configured) == Or(configured, Num(DefaultCacheTtl))

DefaultTimeout == 30000

\* this.timeout = config.timeout || 30000
TimeoutOf(configured) == Or(configured, Num(DefaultTimeout))

\* ========================================================================
\* Normalisation: what each accessor makes of the payload its request returned
\* ========================================================================

\* The outcome of a continuation that threw: reading a property of null or
\* undefined, or calling a method the value does not have.
TypeError == [t |-> "throw", msg |-> "TypeError"]

Threw(v) == v.t = "throw"

\* The elements of an array, as a set of indices.
Indices(a) == 1..Len(a.a)

\* new Date().toISOString() at time ms: a non-empty string that names ms.
IsoString(ms) == [t |-> "string", s |-> <<"I", "S", "O">>, ms |-> ms]

StrZero == Str(<<"0">>)

\* The supplies parsed without the '0' they default to.
NetworkSupplyUndefaulted(data, t) ==
    IF Truthy(data) /\ TypeofObject(data)
    THEN Obj([totalSupply |-> Divide(parseInt(Get(data, "total_supply")),
                                     Num(TinybarsPerHbar)),
              circulatingSupply |-> Divide(parseInt(Get(data, "released_supply")),
                                           Num(TinybarsPerHbar)),
              timestamp |-> Or(parseTimestamp(Get(data, "timestamp")), DateOf(t))])
    ELSE Obj([totalSupply |-> Num(0), circulatingSupply |-> Num(0), timestamp |-> DateOf(t)])

\* getNetworkSupply, from the payload of network/supply.
NetworkSupplyOf(data, t) ==
    IF Truthy(data) /\ TypeofObject(data)
    THEN Obj([totalSupply |-> Divide(parseInt(Or(Get(data, "total_supply"), StrZero)),
                                     Num(TinybarsPerHbar)),
              circulatingSupply |-> Divide(parseInt(Or(Get(data, "released_supply"), StrZero)),
                                           Num(TinybarsPerHbar)),
              timestamp |-> Or(parseTimestamp(Get(data, "timestamp")), DateOf(t))])
    ELSE Obj([totalSupply |-> Num(0), circulatingSupply |-> Num(0), timestamp |-> DateOf(t)])

\* One element of getNetworkNodes.
NetworkNodeOf(node) ==
    Obj([nodeId |-> Or(Get(node, "node_id"), Num(0)),
         nodeAccountId |-> Or(Get(node, "node_account_id"), Str(<<>>)),
         description |-> Get(node, "description"),
         stake |-> Get(node, "stake"),
         stakeNotRewarded |-> Get(node, "stake_not_rewarded"),
         stakeRewarded |-> Get(node, "stake_rewarded"),
         stakePercentage |-> Get(node, "stake_percentage")])

\* getNetworkNodes, from the payload of network/nodes.
NetworkNodesOf(data) ==
    IF Truthy(data) /\ IsArray(Get(data, "nodes"))
    THEN LET nodes == Get(data, "nodes")
         IN  IF \E i \in Indices(nodes) : IsNullish(nodes.a[i]) THEN TypeError
             ELSE Arr([i \in Indices(nodes) |-> NetworkNodeOf(nodes.a[i])])
    ELSE Arr(<<>>)

\* A rate record of getNetworkExchangeRate.
RateOf(rate) ==
    Obj([centEquiv |-> Or(Get(rate, "cent_equiv"), Num(0)),
         hbarEquiv |-> Or(Get(rate, "hbar_equiv"), Num(0)),
         expirationTime |-> Or(Get(rate, "expiration_time"), Str(<<>>))])

\* getNetworkExchangeRate, from the payload of network/exchangerate.
NetworkExchangeRateOf(data, t) ==
    IF Truthy(data) /\ Truthy(Get(data, "current_rate"))
    THEN LET result == [currentRate |-> RateOf(Get(data, "current_rate")),
                        timestamp |-> Or(parseTimestamp(Get(data, "timestamp")), DateOf(t))]
         IN  IF Truthy(Get(data, "next_rate"))
             THEN Obj(result @@ [nextRate |-> RateOf(Get(data, "next_rate"))])
             ELSE Obj(result)
    ELSE Undefined

\* getAccountInfo, from the payload of accounts/{accountId}.
AccountInfoOf(data, accountId) ==
    IF Truthy(data) /\ TypeofObject(data)
    THEN Obj([account |-> Or(Get(data, "account"), Str(accountId)),
              alias |-> Get(data, "alias"),
              balance |-> Obj([balance |-> parseInt(Or(GetOpt(Get(data, "balance"), "balance"),
                                                       StrZero)),
                               timestamp |-> Or(GetOpt(Get(data, "balance"), "timestamp"),
                                                Str(<<>>))]),
              createdTimestamp |-> Or(Get(data, "created_timestamp"), Str(<<>>)),
              declineReward |-> Get(data, "decline_reward"),
              deleted |-> Get(data, "deleted"),
              ethereumNonce |-> Get(data, "ethereum_nonce"),
              evmAddress |-> Get(data, "evm_address"),
              key |-> Get(data, "key"),
              maxAutomaticTokenAssociations |-> Get(data, "max_automatic_token_associations"),
              memo |-> Get(data, "memo"),
              pendingReward |-> Get(data, "pending_reward"),
              receiverSigRequired |-> Get(data, "receiver_sig_required"),
              stakedAccountId |-> Get(data, "staked_account_id"),
              stakedNodeId |-> Get(data, "staked_node_id"),
              stakePeriodStart |-> Get(data, "stake_period_start")])
    ELSE Undefined

\* getAccountBalance, from what getAccountInfo returned.
AccountBalanceOf(accountInfo) ==
    IF Truthy(accountInfo)
    THEN Divide(Get(Get(accountInfo, "balance"), "balance"), Num(TinybarsPerHbar))
    ELSE Num(0)

\* getAccountTokens, from the payload of accounts/{accountId}/tokens.
AccountTokensOf(data) ==
    IF IsArray(GetOpt(data, "tokens")) THEN Get(data, "tokens") ELSE Arr(<<>>)

\* saucerTokenMap.get(tokenId): new Map(pairs) keeps, for a key that occurs
\* more than once, the last pair.
SaucerTokenFor(saucerTokens, tokenId) ==
    LET at == {i \in Indices(saucerTokens) : Get(saucerTokens.a[i], "id") = tokenId}
    IN  IF at = {} THEN Undefined
        ELSE saucerTokens.a[CHOOSE i \in at : \A j \in at : j <= i]

\* One element of getTopTokens.
TopTokenOf(tokenData, saucerTokens) ==
    Obj([tokenId |-> Get(tokenData, "token_id"),
         symbol |-> Or(Get(tokenData, "symbol"), Str(<<>>)),
         name |-> Or(Get(tokenData, "name"), Str(<<>>)),
         decimals |-> parseInt(Or(Get(tokenData, "decimals"), Str(<<"8">>))),
         totalSupply |-> parseInt(Or(Get(tokenData, "total_supply"), StrZero)),
         price |-> Or(GetOpt(SaucerTokenFor(saucerTokens, Get(tokenData, "token_id")),
                             "priceUsd"), Num(0)),
         tvl |-> Num(0),
         volume24h |-> Num(0),
         holders |-> Num(0)])

\* getTopTokens, from the payload of tokens and what getSaucerSwapTokens
\* returned.
TopTokensOf(data, saucerTokens) ==
    IF \E i \in Indices(saucerTokens) : IsNullish(saucerTokens.a[i]) THEN TypeError
    ELSE IF IsArray(GetOpt(data, "tokens"))
    THEN LET tokens == Get(data, "tokens")
         IN  IF \E i \in Indices(tokens) : IsNullish(tokens.a[i]) THEN TypeError
             ELSE Arr([i \in Indices(tokens) |-> TopTokenOf(tokens.a[i], saucerTokens)])
    ELSE Arr(<<>>)

\* getTokenInfo, from the payload of tokens/{tokenId}.
TokenInfoOf(data, tokenId) ==
    IF ~Truthy(data) \/ ~TypeofObject(data) THEN Undefined
    ELSE Obj([tokenId |-> Str(tokenId),
              symbol |-> Or(Get(data, "symbol"), Str(<<>>)),
              name |-> Or(Get(data, "name"), Str(<<>>)),
              decimals |-> parseInt(Or(Get(data, "decimals"), Str(<<"8">>))),
              totalSupply |-> parseInt(Or(Get(data, "total_supply"), StrZero)),
              price |-> Num(0),
              tvl |-> Num(0),
              volume24h |-> Num(0),
              holders |-> Num(0)])

\* A default that displays an amount.
OneDisplay == Obj([usdDisplay |-> Str(<<"1">>)])

\* The default of the four market totals.
ZeroDisplay == Obj([usdDisplay |-> StrZero])

\* One reserve of getBonzoMarkets.
BonzoReserveOf(reserve) ==
    Obj([symbol |-> Or(Get(reserve, "symbol"), Str(<<>>)),
         name |-> Get(reserve, "name"),
         active |-> Or(Get(reserve, "active"), Bool(FALSE)),
         supplyApy |-> Or(Or(Get(reserve, "supply_apy"), Get(reserve, "supplyApy")), Num(0)),
         variableBorrowApy |-> Or(Or(Get(reserve, "variable_borrow_apy"),
                                     Get(reserve, "variableBorrowApy")), Num(0)),
         stableBorrowApy |-> Or(Get(reserve, "stable_borrow_apy"),
                                Get(reserve, "stableBorrowApy")),
         utilizationRate |-> Or(Or(Get(reserve, "utilization_rate"),
                                   Get(reserve, "utilizationRate")), Num(0)),
         availableLiquidity |-> Or(Or(Get(reserve, "available_liquidity"),
                                      Get(reserve, "availableLiquidity")), ZeroDisplay),
         totalBorrowableLiquidity |-> Or(Get(reserve, "total_borrowable_liquidity"),
                                         Get(reserve, "totalBorrowableLiquidity")),
         ltv |-> Or(Get(reserve, "ltv"), Num(0)),
         liquidationThreshold |-> Or(Or(Get(reserve, "liquidation_threshold"),
                                        Get(reserve, "liquidationThreshold")), Num(0)),
         liquidationBonus |-> Or(Get(reserve, "liquidation_bonus"),
                                 Get(reserve, "liquidationBonus")),
         variableBorrowingEnabled |-> Or(Get(reserve, "variable_borrowing_enabled"),
                                         Get(reserve, "variableBorrowingEnabled")),
         stableBorrowingEnabled |-> Or(Get(reserve, "stable_borrowing_enabled"),
                                       Get(reserve, "stableBorrowingEnabled"))])

\* getBonzoMarkets, from the payload of Market.
BonzoMarketsOf(markets, t) ==
    IF Truthy(markets) /\ TypeofObject(markets)
    THEN LET reserves == Get(markets, "reserves")
         IN  IF IsArray(reserves) /\ \E i \in Indices(reserves) : IsNullish(reserves.a[i])
             THEN TypeError
             ELSE Obj([chainId |-> Or(Or(Get(markets, "chain_id"), Get(markets, "chainId")),
                                      Str(<<>>)),
                       networkName |-> Or(Or(Get(markets, "network_name"),
                                             Get(markets, "networkName")), Str(<<>>)),
                       totalMarketSupplied |-> Or(Or(Get(markets, "total_market_supplied"),
                                                     Get(markets, "totalMarketSupplied")),
                                                  ZeroDisplay),
                       totalMarketBorrowed |-> Or(Or(Get(markets, "total_market_borrowed"),
                                                     Get(markets, "totalMarketBorrowed")),
                                                  ZeroDisplay),
                       totalMarketLiquidity |-> Or(Or(Get(markets, "total_market_liquidity"),
                                                      Get(markets, "totalMarketLiquidity")),
                                                   ZeroDisplay),
                       totalMarketReserve |-> Or(Or(Get(markets, "total_market_reserve"),
                                                    Get(markets, "totalMarketReserve")),
                                                 ZeroDisplay),
                       reserves |-> IF IsArray(reserves)
                                    THEN Arr([i \in Indices(reserves) |->
                                                 BonzoReserveOf(reserves.a[i])])
                                    ELSE Arr(<<>>),
                       timestamp |-> Or(Get(markets, "timestamp"), IsoString(t))])
    ELSE Undefined

\* getBonzoReserves, from cachedData || what getBonzoMarkets returned.
BonzoReservesOf(data) ==
    IF IsArray(GetOpt(data, "reserves")) THEN Get(data, "reserves") ELSE Arr(<<>>)

\* getBonzoTotalMarkets, from cachedData || what getBonzoMarkets returned.
BonzoTotalMarketsOf(data) ==
    IF Truthy(data)
    THEN Obj([chainId |-> Get(data, "chainId"),
              networkName |-> Get(data, "networkName"),
              totalMarketSupplied |-> Get(data, "totalMarketSupplied"),
              totalMarketBorrowed |-> Get(data, "totalMarketBorrowed"),
              totalMarketLiquidity |-> Get(data, "totalMarketLiquidity"),
              totalMarketReserve |-> Get(data, "totalMarketReserve"),
              timestamp |-> Get(data, "timestamp"),
              totalReserves |-> IF IsArray(Get(data, "reserves"))
                                THEN Num(Len(Get(data, "reserves").a)) ELSE Num(0)])
    ELSE EmptyObject

\* getSaucerSwapPools and getSaucerSwapTokens, from the payload of pools and
\* of tokens.
SaucerSwapListOf(payload) == IF IsArray(payload) THEN payload ELSE Arr(<<>>)

\* getSaucerSwapStats, from the payload of stats: an object is returned as it
\* came.
SaucerSwapStatsOf(stats) ==
    IF Truthy(stats) /\ TypeofObject(stats) THEN stats
    ELSE Obj([tvlUsd |-> Num(0), volumeTotalUsd |-> Num(0), swapTotal |-> Num(0),
              circulatingSauce |-> Num(0)])

\* The pools p with parseInt(p.liquidity || '0') > 0.
ActivePools(saucerPools) ==
    {i \in Indices(saucerPools) :
        Greater(parseInt(Or(Get(saucerPools.a[i], "liquidity"), StrZero)), Num(0))}

Percent == 100

\* A share that is computed whatever the total is.
ShareUnguarded(part, total) == Times(Divide(part, total), Num(Percent))

\* saucerTvl + bonzoTvl > 0 ? (part / (saucerTvl + bonzoTvl) * 100) : 0
ShareOf(part, total) ==
    IF Greater(total, Num(0)) THEN Times(Divide(part, total), Num(Percent)) ELSE Num(0)

\* getCrossProtocolLiquiditySummary, from what getSaucerSwapStats,
\* getSaucerSwapPools and getBonzoMarkets returned; t0, t1 and t are the
\* times at its start, after the two DEX calls and after the lending call.
CrossProtocolLiquiditySummaryOf(saucerStats, saucerPools, bonzoData, t0, t1, t) ==
    LET saucerTvl == Or(Get(saucerStats, "tvlUsd"), Num(0))
        bonzoTvlStr == Or(GetOpt(GetOpt(bonzoData, "totalMarketSupplied"), "usdDisplay"),
                          StrZero)
        bonzoTvl == parseUsdValue(bonzoTvlStr)
        total == Plus(saucerTvl, bonzoTvl)
        reserves == GetOpt(bonzoData, "reserves")
    IN  IF \E i \in Indices(saucerPools) : IsNullish(saucerPools.a[i]) THEN TypeError
        ELSE Obj([totalLiquidityUsd |-> total,
                  saucerswap |->
                      Obj([tvlUsd |-> saucerTvl,
                           poolCount |-> Num(Len(saucerPools.a)),
                           activePools |-> Num(Cardinality(ActivePools(saucerPools))),
                           protocolType |-> Str(<<"D", "E", "X">>)]),
                  bonzoFinance |->
                      Obj([tvlUsd |-> bonzoTvl,
                           reserveCount |-> IF IsArray(reserves)
                                            THEN Num(Len(reserves.a)) ELSE Num(0),
                           activeReserves |->
                               IF IsArray(reserves)
                               THEN Num(Cardinality({i \in Indices(reserves) :
                                            Truthy(Get(reserves.a[i], "active"))}))
                               ELSE Num(0),
                           protocolType |-> Str(<<"L", "e", "n", "d", "i", "n", "g">>)]),
                  protocolDistribution |->
                      Obj([dexPercentage |-> ShareOf(saucerTvl, total),
                           lendingPercentage |-> ShareOf(bonzoTvl, total)]),
                  timestamp |-> IsoString(t),
                  performance |-> Obj([totalTime |-> Num(t - t0),
                                       saucerswapTime |-> Num(t1 - t0),
                                       bonzoTime |-> Num(t - t1)])])

\* c.toLowerCase() for the letters of a file extension.
ToLower(c) ==
    CASE c = "P" -> "p" [] c = "N" -> "n" [] c = "G" -> "g" [] OTHER -> c

LowerCase(s) == [i \in 1..Len(s) |-> ToLower(s[i])]

\* The tokens of the list that get an image: those with a truthy icon and a
\* truthy id.
WithImage(tokens) ==
    {i \in Indices(tokens) :
        Truthy(Get(tokens.a[i], "icon")) /\ Truthy(Get(tokens.a[i], "id"))}

IsPng(token) == EndsWith(LowerCase(Get(token, "icon").s), <<".", "p", "n", "g">>)

\* The entry tokenImages[token.id] of one token.
TokenImageOf(token) ==
    Obj([symbol |-> Get(token, "symbol"),
         name |-> Get(token, "name"),
         iconUrl |-> Get(token, "icon"),
         isPng |-> Bool(IsPng(token)),
         priceUsd |-> Or(Get(token, "priceUsd"), Num(0)),
         inTopPools |-> Or(Get(token, "inTopPools"), Bool(FALSE))])

\* The property name a token id makes.
ImageKey(token) == Join(Get(token, "id").s)

\* getAllTokenImages, from what getSaucerSwapTokens returned; a later token
\* with the same id overwrites the entry of an earlier one, and pngCount
\* counts every token the loop stores.
AllTokenImagesOf(tokens, t0, t) ==
    IF \E i \in Indices(tokens) : IsNullish(tokens.a[i]) THEN TypeError
    ELSE IF \E i \in WithImage(tokens) : Get(tokens.a[i], "icon").t # "string"
    THEN TypeError
    ELSE LET with == WithImage(tokens)
             keys == {ImageKey(tokens.a[i]) : i \in with}
             lastOf(k) == CHOOSE i \in with :
                             /\ ImageKey(tokens.a[i]) = k
                             /\ \A j \in with : ImageKey(tokens.a[j]) = k => j <= i
             tokenImages == [k \in keys |-> TokenImageOf(tokens.a[lastOf(k)])]
             pngCount == Cardinality({i \in with : IsPng(tokens.a[i])})
             pngKeys == {k \in keys : tokenImages[k].f.isPng.b}
         IN  Obj([allImages |-> Obj(tokenImages),
                  pngImages |-> Obj([k \in pngKeys |-> tokenImages[k]]),
                  stats |-> Obj([totalTokens |-> Num(Len(tokens.a)),
                                 tokensWithImages |-> Num(Cardinality(keys)),
                                 pngImagesCount |-> Num(pngCount),
                                 otherFormatCount |-> Num(Cardinality(keys) - pngCount),
                                 fetchTime |-> Num(t - t0)])])

\* ========================================================================
\* The three request paths
\* ========================================================================

\* JSON.stringify of one parameter value: a string in quotes, a whole number
\* in decimal digits, a positive number of halves with its ".5".
StringifyValue(v) ==
    CASE v.t = "string" -> "\"" \o Join(v.s) \o "\""
      [] v.t = "number" /\ v.d = 1 -> ToString(v.n)
      [] v.t = "number" /\ v.d = 2 /\ v.n > 0 -> ToString(v.n \div 2) \o ".5"

\* JSON.stringify(params || {}): params is the sequence of the <<name, value>>
\* pairs of the object, in the order the object literal lists them; absent
\* params and {} are both the empty sequence.
RECURSIVE StringifyPairs(_)
StringifyPairs(params) ==
    IF params = <<>> THEN ""
    ELSE "\"" \o params[1][1] \o "\":" \o StringifyValue(params[1][2])
         \o (IF Len(params) > 1 THEN "," ELSE "") \o StringifyPairs(Tail(params))

JSONStringify(params) == "{" \o StringifyPairs(params) \o "}"

\* The cache key of each path.
RequestCacheKey(path, params) == path \o ":" \o JSONStringify(params)

SaucerswapCacheKey(path) == "saucer:" \o path

BonzoCacheKey(path) == "bonzo:" \o path

\* A key made of the path alone.
CacheKeyOfPath(src, path, params) == path

CacheKey(src, path, params) ==
    CASE src = "mirror" -> RequestCacheKey(path, params)
      [] src = "saucer" -> SaucerswapCacheKey(path)
      [] src = "bonzo" -> BonzoCacheKey(path)

\* The cache check of each path: entries is the client's cache, t is
\* Date.now(), ttl is this.cacheTtl.
RequestCacheHit(entries, key, t, ttl) ==
    key \in DOMAIN entries /\ t - entries[key].timestamp < ttl * MillisPerSecond

SaucerswapCacheHit(entries, key, t, ttl) ==
    key \in DOMAIN entries /\ t - entries[key].timestamp < ttl * MillisPerSecond

\* A window that includes its far end.
BonzoCacheHitInclusive(entries, key, t, ttl) ==
    key \in DOMAIN entries /\ t - entries[key].timestamp <= ttl * MillisPerSecond

BonzoCacheHit(entries, key, t, ttl) ==
    key \in DOMAIN entries /\ t - entries[key].timestamp < ttl * MillisPerSecond

CacheHit(src, entries, key, t, ttl) ==
    CASE src = "mirror" -> RequestCacheHit(entries, key, t, ttl)
      [] src = "saucer" -> SaucerswapCacheHit(entries, key, t, ttl)
      [] src = "bonzo" -> BonzoCacheHit(entries, key, t, ttl)

\* A hit that returns the entry, not its data.
CachedEntry(entries, key) == entries[key]

\* return cached.data
CachedData(entries, key) == entries[key].data

\* What httpClient.get can come to.  A resolved call has a 2xx status (axios
\* rejects the others) and a body; a rejected one is an axios error with the
\* status of the response, with the code ECONNABORTED (the timeout), with
\* neither (no connection), or an error that is not an axios error.
Resolved(status, data) ==
    [resolved |-> TRUE, status |-> status, data |-> data, axios |-> FALSE, code |-> ""]

Rejected(axios, status, code) ==
    [resolved |-> FALSE, status |-> status, data |-> Undefined, axios |-> axios, code |-> code]

Ok == 200

TooManyRequests == 429

\* What each path makes of the outcome o of its network call: store tells
\* whether it writes the cache entry, data is what it returns, warn is the
\* warning it logs.
RequestReturn(o) ==
    IF o.resolved
    THEN IF o.status = Ok /\ Truthy(o.data)
         THEN [store |-> TRUE, data |-> o.data, warn |-> ""]
         ELSE [store |-> FALSE, data |-> EmptyObject, warn |-> "status"]
    ELSE [store |-> FALSE, data |-> EmptyObject,
          warn |-> IF o.axios
                   THEN IF o.status = TooManyRequests THEN "rate limited"
                        ELSE IF o.code = "ECONNABORTED" THEN "timeout"
                        ELSE IF o.status # 0 THEN "api error"
                        ELSE "connection error"
                   ELSE "request failed"]

SaucerswapReturn(o) ==
    IF o.resolved
    THEN IF o.status = Ok /\ Truthy(o.data)
         THEN [store |-> TRUE, data |-> o.data, warn |-> ""]
         ELSE [store |-> FALSE, data |-> Or(o.data, EmptyObject), warn |-> "status"]
    ELSE [store |-> FALSE, data |-> EmptyObject,
          warn |-> IF o.axios
                   THEN IF o.code = "ECONNABORTED" THEN "timeout"
                        ELSE IF o.status # 0 THEN "api error"
                        ELSE "connection error"
                   ELSE "request failed"]

BonzoReturn(o) ==
    IF o.resolved
    THEN IF o.status = Ok /\ Truthy(o.data)
         THEN [store |-> TRUE, data |-> o.data, warn |-> ""]
         ELSE [store |-> FALSE, data |-> Or(o.data, EmptyObject), warn |-> "status"]
    ELSE [store |-> FALSE, data |-> EmptyObject,
          warn |-> IF o.axios
                   THEN IF o.code = "ECONNABORTED" THEN "timeout"
                        ELSE IF o.status # 0 THEN "api error"
                        ELSE "connection error"
                   ELSE "request failed"]

Return(src, o) ==
    CASE src = "mirror" -> RequestReturn(o)
      [] src = "saucer" -> SaucerswapReturn(o)
      [] src = "bonzo" -> BonzoReturn(o)

\* A cache that is not written.
CacheUnwritten(entries, key, data, t) == entries

\* A cache that keeps the entry it writes and no other.
CacheSetAlone(entries, key, data, t) == [k \in {key} |-> [data |-> data, timestamp |-> t]]

\* this.cache.set(cacheKey, {data, timestamp: Date.now()})
\* A set that keeps the entry a key already has.
CacheSetKeepingFirst(entries, key, data, t) ==
    IF key \in DOMAIN entries THEN entries
    ELSE [k \in DOMAIN entries \cup {key} |->
             IF k = key THEN [data |-> data, timestamp |-> t] ELSE entries[k]]

CacheSet(entries, key, data, t) ==
    [k \in DOMAIN entries \cup {key} |->
        IF k = key THEN [data |-> data, timestamp |-> t] ELSE entries[k]]

\* A tracker that records the call, not the count of calls.
trackCallOnce(counts, methodName) ==
    [m \in DOMAIN counts \cup {methodName} |-> IF m = methodName THEN 1 ELSE counts[m]]

\* trackCall: this.callCounts[methodName] = (this.callCounts[methodName] || 0) + 1
trackCall(counts, methodName) ==
    [m \in DOMAIN counts \cup {methodName} |->
        IF m = methodName
        THEN (IF m \in DOMAIN counts THEN counts[m] ELSE 0) + 1
        ELSE counts[m]]

\* A tracker that warns from the threshold on.
trackCallWarnsFrom(counts, methodName) ==
    methodName \in DOMAIN counts /\ counts[methodName] + 1 >= WarnThreshold

\* trackCall: if (this.callCounts[methodName] > 5) console.warn(...), after
\* the increment; counts are those before the call.
trackCallWarns(counts, methodName) ==
    (IF methodName \in DOMAIN counts THEN counts[methodName] ELSE 0) + 1 > WarnThreshold

\* ========================================================================
\* The accessors
\* ========================================================================

\* The arguments of a call: id is accountId or tokenId, limit and sortBy are
\* those of getTopTokens, cachedData that of getBonzoReserves and
\* getBonzoTotalMarkets; an accessor reads only its own.
Args(id, limit, sortBy, cachedData) ==
    [id |-> id, limit |-> limit, sortBy |-> sortBy, cachedData |-> cachedData]

NoArgs == Args(<<>>, Undefined, "", Undefined)

IdPrefix == <<"0", ".", "0", ".">>

\* The validation each accessor starts with: the message of the error it
\* throws, "" when it throws none.
AccountIdError(accountId) ==
    IF ~validateAccountId(accountId)
    THEN "Invalid account ID format: " \o Join(accountId) ELSE ""

\* if (limit <= 0 || limit > 1000) throw new Error('Limit must be between 1 and 1000')
LimitError(limit) ==
    IF LessEq(limit, Num(0)) \/ Greater(limit, Num(MaxLimit))
    THEN "Limit must be between 1 and 1000" ELSE ""

TokenIdError(tokenId) ==
    IF tokenId = <<>> \/ ~StartsWith(tokenId, IdPrefix)
    THEN "Invalid token ID format: " \o Join(tokenId) ELSE ""

ValidationError(op, args) ==
    CASE op \in {"getAccountInfo", "getAccountBalance", "getAccountTokens"} ->
             AccountIdError(args.id)
      [] op = "getTopTokens" -> LimitError(args.limit)
      [] op = "getTokenInfo" -> TokenIdError(args.id)
      [] OTHER -> ""

\* if (!path) throw new Error('Path cannot be empty')
PathError(src, path) == IF src = "mirror" /\ path = "" THEN "Path cannot be empty" ELSE ""

FungibleCommon ==
    <<"F", "U", "N", "G", "I", "B", "L", "E", "_", "C", "O", "M", "M", "O", "N">>

\* One request of an accessor: the name trackCall counts it under ("" when
\* the accessor does not call trackCall), the path it goes by, and the path
\* and parameters it asks for.
Leaf(track, src, path, params) ==
    [track |-> track, src |-> src, path |-> path, params |-> params]

LeafOf(name, args) ==
    CASE name = "getNetworkSupply" ->
             Leaf("getNetworkSupply", "mirror", "network/supply", <<>>)
      [] name = "getNetworkNodes" ->
             Leaf("getNetworkNodes", "mirror", "network/nodes", <<>>)
      [] name = "getNetworkExchangeRate" ->
             Leaf("", "mirror", "network/exchangerate", <<>>)
      [] name = "getAccountInfo" ->
             Leaf("", "mirror", "accounts/" \o Join(args.id), <<>>)
      [] name = "getAccountTokens" ->
             Leaf("", "mirror", "accounts/" \o Join(args.id) \o "/tokens", <<>>)
      [] name = "tokens" ->
             Leaf("", "mirror", "tokens",
                  << <<"type", Str(FungibleCommon)>>,
                     <<"limit", args.limit>>,
                     <<"order", Str(IF args.sortBy = "created_timestamp"
                                    THEN <<"d", "e", "s", "c">> ELSE <<"a", "s", "c">>)>> >>)
      [] name = "getTokenInfo" ->
             Leaf("", "mirror", "tokens/" \o Join(args.id), <<>>)
      [] name = "getBonzoMarkets" ->
             Leaf("getBonzoMarkets", "bonzo", "Market", <<>>)
      [] name = "getSaucerSwapPools" ->
             Leaf("getSaucerSwapPools", "saucer", "pools", <<>>)
      [] name = "getSaucerSwapTokens" ->
             Leaf("getSaucerSwapTokens", "saucer", "tokens", <<>>)
      [] name = "getSaucerSwapStats" ->
             Leaf("getSaucerSwapStats", "saucer", "stats", <<>>)

\* The requests an accessor makes, one after the other, each awaited before
\* the next.
Program(op, args) ==
    CASE op = "getAccountBalance" -> <<"getAccountInfo">>
      [] op = "getTopTokens" -> <<"tokens", "getSaucerSwapTokens">>
      [] op \in {"getBonzoReserves", "getBonzoTotalMarkets"} ->
             IF Truthy(args.cachedData) THEN <<>> ELSE <<"getBonzoMarkets">>
      [] op = "getCrossProtocolLiquiditySummary" ->
             <<"getSaucerSwapStats", "getSaucerSwapPools", "getBonzoMarkets">>
      [] op = "getAllTokenImages" -> <<"getSaucerSwapTokens">>
      [] OTHER -> <<op>>

\* What the accessor called name returns for the payload data of its
\* request, at time t.
LeafResult(name, args, data, t) ==
    CASE name = "getNetworkSupply" -> NetworkSupplyOf(data, t)
      [] name = "getNetworkNodes" -> NetworkNodesOf(data)
      [] name = "getNetworkExchangeRate" -> NetworkExchangeRateOf(data, t)
      [] name = "getAccountInfo" -> AccountInfoOf(data, args.id)
      [] name = "getAccountTokens" -> AccountTokensOf(data)
      [] name = "tokens" -> data
      [] name = "getTokenInfo" -> TokenInfoOf(data, args.id)
      [] name = "getBonzoMarkets" -> BonzoMarketsOf(data, t)
      [] name = "getSaucerSwapPools" -> SaucerSwapListOf(data)
      [] name = "getSaucerSwapTokens" -> SaucerSwapListOf(data)
      [] name = "getSaucerSwapStats" -> SaucerSwapStatsOf(data)

\* What an accessor returns once its requests have returned acc (at the
\* times times); t0 is the time of the call, t the time of the return.
Combine(op, args, acc, times, t0, t) ==
    CASE op = "getAccountBalance" -> AccountBalanceOf(acc[1])
      [] op = "getTopTokens" -> TopTokensOf(acc[1], acc[2])
      [] op = "getBonzoReserves" ->
             BonzoReservesOf(IF acc = <<>> THEN args.cachedData ELSE acc[1])
      [] op = "getBonzoTotalMarkets" ->
             BonzoTotalMarketsOf(IF acc = <<>> THEN args.cachedData ELSE acc[1])
      [] op = "getCrossProtocolLiquiditySummary" ->
             CrossProtocolLiquiditySummaryOf(acc[1], acc[2], acc[3], t0, times[2], t)
      [] op = "getAllTokenImages" -> AllTokenImagesOf(acc[1], t0, t)
      [] OTHER -> acc[1]

\* ========================================================================
\* The inputs: what callers pass and what the upstreams answer
\* ========================================================================

\* Account and token ids: well-formed ones, and ones each validation
\* rejects ("0.0.x" is no account id, yet starts as a token id must).
ValidIds == {<<"0", ".", "0", ".", "2">>}

InvalidIds == {<<>>, <<"1", ".", "2", ".", "3">>, <<"0", ".", "0", ".">>, <<"0", ".", "0", ".", "x">>, <<"0", ".", "0", ".", "2", "x">>}

Ids == ValidIds \cup InvalidIds

\* Limits: numbers on both sides of each end of the range, among them one
\* that is no whole number.
Limits == {Num(-1), Num(0), Rat(1, 2), Num(1), Num(MaxLimit), Num(MaxLimit + 1)}

SortBys == {"supply", "created_timestamp"}

\* Bodies of network/supply.
SupplyBodies ==
    {Obj([total_supply |-> Str(<<"5", "0", "0", "0", "0", "0", "0", "0", "0">>), released_supply |-> Str(<<"2", "0", "0", "0", "0", "0", "0", "0", "0">>),
          timestamp |-> Str(<<"7", "0", "0", "0", "0", "0", "0">>)]),
     Obj([total_supply |-> Str(<<"1", "0", "0", "0", "0", "0", "0", "0", "0">>)])}

SupplyShapes == {Str(<<"x">>), Arr(<<>>), Obj([total_supply |-> Null]), Num(7)}

\* Bodies of network/nodes.
NodesBodies ==
    {Obj([nodes |-> Arr(<<Obj([node_id |-> Num(3), node_account_id |-> Str(<<"0", ".", "0", ".", "3">>),
                               description |-> Str(<<"n">>), stake |-> Num(10)])>>)]),
     Obj([nodes |-> Arr(<<>>)])}

NodesShapes ==
    {Obj([nodes |-> Arr(<<Null>>)]), Obj([links |-> Null]), Str(<<"x">>),
     Obj([nodes |-> Arr(<<Num(1)>>)])}

\* Bodies of network/exchangerate.
RateBodies ==
    {Obj([current_rate |-> Obj([cent_equiv |-> Num(12), hbar_equiv |-> Num(1),
                                expiration_time |-> Num(99)]),
          next_rate |-> Obj([cent_equiv |-> Num(13), hbar_equiv |-> Num(1),
                             expiration_time |-> Num(100)]),
          timestamp |-> Str(<<"7", "0", "0", "0", "0", "0", "0">>)]),
     Obj([current_rate |-> Obj([cent_equiv |-> Num(12)])])}

RateShapes == {Obj([current_rate |-> Null]), Obj([current_rate |-> Num(5)]), Str(<<"x">>)}

\* Bodies of accounts/{id}.
AccountBodies ==
    {Obj([account |-> Str(<<"0", ".", "0", ".", "2">>),
          balance |-> Obj([balance |-> Num(300000000), timestamp |-> Str(<<"9">>)]),
          memo |-> Str(<<"m">>)]),
     Obj([balance |-> Obj([balance |-> Str(<<"1", "0", "0", "0", "0", "0", "0", "0", "0">>)])])}

AccountShapes == {Obj([balance |-> Null]), Str(<<"x">>), Arr(<<>>)}

\* Bodies of accounts/{id}/tokens.
AccountTokensBodies ==
    {Obj([tokens |-> Arr(<<Obj([token_id |-> Str(<<"0", ".", "0", ".", "5">>), balance |-> Num(4)])>>)]),
     Obj([tokens |-> Arr(<<>>)])}

AccountTokensShapes == {Obj([tokens |-> Null]), Str(<<"x">>), Obj([tokens |-> Arr(<<Null>>)])}

\* Bodies of tokens.
TokensBodies ==
    {Obj([tokens |-> Arr(<<Obj([token_id |-> Str(<<"0", ".", "0", ".", "5">>), symbol |-> Str(<<"S">>),
                                name |-> Str(<<"s">>), decimals |-> Num(6),
                                total_supply |-> Str(<<"1", "0", "0", "0">>)])>>)]),
     Obj([tokens |-> Arr(<<Obj([token_id |-> Str(<<"0", ".", "0", ".", "6">>)])>>)])}

TokensShapes == {Obj([tokens |-> Arr(<<Null>>)]), Obj([links |-> Null]), Str(<<"x">>)}

\* Bodies of tokens/{id}.
TokenBodies ==
    {Obj([symbol |-> Str(<<"S">>), name |-> Str(<<"s">>), decimals |-> Str(<<"6">>),
          total_supply |-> Str(<<"1", "0", "0", "0">>)]),
     Obj([symbol |-> Str(<<"T">>)])}

TokenShapes == {Str(<<"x">>), Arr(<<>>), Obj([decimals |-> Null])}

\* A display amount as the lending API gives it, in one naming or the other.
SnakeAmount(s) == Obj([usd_display |-> Str(s)])

CamelAmount(s) == Obj([usdDisplay |-> Str(s)])

\* Bodies of Market: one in snake_case, one in camelCase.
MarketBodies ==
    {Obj([chain_id |-> Num(295), network_name |-> Str(<<"m">>),
          total_market_supplied |-> SnakeAmount(<<"$", "1", ",", "5", "0", "0", ".", "5", "0">>),
          total_market_borrowed |-> SnakeAmount(<<"$", "2", "5", "0">>),
          total_market_liquidity |-> SnakeAmount(<<"$", "2", "5", "0">>),
          total_market_reserve |-> SnakeAmount(<<"$", "2", "5", "0">>),
          reserves |-> Arr(<<Obj([symbol |-> Str(<<"H">>), active |-> Bool(TRUE),
                                  supply_apy |-> Num(3), variable_borrow_apy |-> Num(5),
                                  utilization_rate |-> Num(40),
                                  available_liquidity |-> SnakeAmount(<<"$", "2", "5", "0">>),
                                  ltv |-> Num(60), liquidation_threshold |-> Num(70)])>>),
          timestamp |-> Str(<<"9">>)]),
     Obj([chainId |-> Num(295), networkName |-> Str(<<"m">>),
          totalMarketSupplied |-> CamelAmount(<<"$", "2", "5", "0">>),
          totalMarketBorrowed |-> CamelAmount(<<"$", "2", "5", "0">>),
          totalMarketLiquidity |-> CamelAmount(<<"$", "2", "5", "0">>),
          totalMarketReserve |-> CamelAmount(<<"$", "2", "5", "0">>),
          reserves |-> Arr(<<Obj([symbol |-> Str(<<"H">>), active |-> Bool(FALSE),
                                  supplyApy |-> Num(4), variableBorrowApy |-> Num(0),
                                  utilizationRate |-> Num(0),
                                  availableLiquidity |-> CamelAmount(<<"$", "2", "5", "0">>),
                                  ltv |-> Num(0), liquidationThreshold |-> Num(70)])>>)])}

\* Bodies of Market whose total supplied displays no amount, or a zero.
MarketDisplays ==
    {Obj([totalMarketSupplied |-> CamelAmount(<<"$", "0">>)]),
     Obj([totalMarketSupplied |-> CamelAmount(<<"N", "/", "A">>), reserves |-> Null]),
     Obj([totalMarketSupplied |-> CamelAmount(<<"$", "0", ".", "0", "0">>)])}

\* A body of Market whose reserves hold zeros and false: one in snake_case,
\* one in camelCase, one that leaves the fields out.
MarketReserves ==
    {Obj([reserves |->
            Arr(<<Obj([symbol |-> Str(<<"H">>), supply_apy |-> Num(0),
                       stable_borrow_apy |-> Num(0), utilization_rate |-> Num(40),
                       liquidation_bonus |-> Num(5),
                       variable_borrowing_enabled |-> Bool(TRUE),
                       stable_borrowing_enabled |-> Bool(FALSE)]),
                  Obj([symbol |-> Str(<<"S">>), supplyApy |-> Num(0),
                       stableBorrowApy |-> Num(2), utilizationRate |-> Num(0),
                       liquidationBonus |-> Num(5),
                       variableBorrowingEnabled |-> Bool(FALSE),
                       stableBorrowingEnabled |-> Bool(TRUE)]),
                  Obj([symbol |-> Str(<<"E">>)])>>)])}

MarketShapes ==
    MarketDisplays \cup MarketReserves \cup {Obj([reserves |-> Arr(<<Null>>)]), Str(<<"x">>)}

\* Bodies of stats.
StatsBodies ==
    {Obj([tvlUsd |-> Num(750), volumeTotalUsd |-> Num(9), swapTotal |-> Num(4),
          circulatingSauce |-> Num(1)]),
     Obj([tvlUsd |-> Num(0), volumeTotalUsd |-> Num(0), swapTotal |-> Num(0),
          circulatingSauce |-> Num(0)])}

StatsShapes == {Obj([volumeTotalUsd |-> Num(9)]), Str(<<"x">>), Arr(<<>>)}

\* Bodies of pools.
PoolsBodies ==
    {Arr(<<Obj([id |-> Num(1), liquidity |-> Str(<<"1", "0", "0", "0">>)]),
           Obj([id |-> Num(2), liquidity |-> Str(<<"0">>)])>>),
     Arr(<<>>)}

PoolsShapes == {Arr(<<Null>>), Obj([pools |-> Arr(<<>>)]), Str(<<"x">>), Arr(<<Obj([id |-> Num(1)])>>)}

\* Bodies of the DEX tokens.
SaucerTokensBodies ==
    {Arr(<<Obj([id |-> Str(<<"0", ".", "0", ".", "5">>), symbol |-> Str(<<"S">>), name |-> Str(<<"s">>),
                priceUsd |-> Num(2), icon |-> Str(<<"a", ".", "p", "n", "g">>)]),
           Obj([id |-> Str(<<"0", ".", "0", ".", "6">>), symbol |-> Str(<<"T">>), name |-> Str(<<"t">>),
                priceUsd |-> Num(0), icon |-> Str(<<"a", ".", "s", "v", "g">>), inTopPools |-> Bool(TRUE)])>>),
     Arr(<<Obj([id |-> Str(<<"0", ".", "0", ".", "5">>), symbol |-> Str(<<"S">>), priceUsd |-> Num(3)])>>)}

SaucerTokensShapes ==
    {Arr(<<Null>>),
     Arr(<<Obj([id |-> Str(<<"0", ".", "0", ".", "5">>), icon |-> Num(1)])>>),
     Arr(<<Obj([id |-> Str(<<"0", ".", "0", ".", "5">>), icon |-> Str(<<"b", ".", "P", "N", "G">>)]),
           Obj([id |-> Str(<<"0", ".", "0", ".", "5">>), icon |-> Str(<<"a", ".", "p", "n", "g">>)])>>),
     Obj([tokens |-> Arr(<<>>)]),
     Str(<<"x">>)}

\* The well-formed bodies of each request, and the unexpected ones.
Bodies(name) ==
    CASE name = "getNetworkSupply" -> SupplyBodies
      [] name = "getNetworkNodes" -> NodesBodies
      [] name = "getNetworkExchangeRate" -> RateBodies
      [] name = "getAccountInfo" -> AccountBodies
      [] name = "getAccountTokens" -> AccountTokensBodies
      [] name = "tokens" -> TokensBodies
      [] name = "getTokenInfo" -> TokenBodies
      [] name = "getBonzoMarkets" -> MarketBodies
      [] name = "getSaucerSwapPools" -> PoolsBodies
      [] name = "getSaucerSwapTokens" -> SaucerTokensBodies
      [] name = "getSaucerSwapStats" -> StatsBodies

Shapes(name) ==
    CASE name = "getNetworkSupply" -> SupplyShapes
      [] name = "getNetworkNodes" -> NodesShapes
      [] name = "getNetworkExchangeRate" -> RateShapes
      [] name = "getAccountInfo" -> AccountShapes
      [] name = "getAccountTokens" -> AccountTokensShapes
      [] name = "tokens" -> TokensShapes
      [] name = "getTokenInfo" -> TokenShapes
      [] name = "getBonzoMarkets" -> MarketShapes
      [] name = "getSaucerSwapPools" -> PoolsShapes
      [] name = "getSaucerSwapTokens" -> SaucerTokensShapes
      [] name = "getSaucerSwapStats" -> StatsShapes

\* The network calls that fail: rate limiting, an error status, the timeout,
\* no connection, an error that is no axios error.
Failures ==
    {Rejected(TRUE, TooManyRequests, ""), Rejected(TRUE, 500, ""),
     Rejected(TRUE, 0, "ECONNABORTED"), Rejected(TRUE, 0, ""), Rejected(FALSE, 0, "")}

\* The calls that resolve without a cacheable body: a 200 with an empty or a
\* null body, a 204, and a 2xx other than 200 with a body.
Uncacheable(name) ==
    {Resolved(Ok, Str(<<>>)), Resolved(Ok, Null), Resolved(204, Str(<<>>))}
    \cup {Resolved(201, b) : b \in Bodies(name)}

Successes(name) == {Resolved(Ok, b) : b \in Bodies(name)}

Malformed(name) == {Resolved(Ok, b) : b \in Shapes(name)}

\* ========================================================================
\* State
\* ========================================================================

VARIABLES
    now,         \* Date.now(), in milliseconds
    cacheTtl,    \* cacheTtl[c]: this.cacheTtl of client c, in seconds
    timeout,     \* timeout[c]: this.timeout of client c, in milliseconds
    cache,       \* cache[c]: this.cache, from cache key to {data, timestamp}
    callCounts,  \* callCounts[c]: this.callCounts, from method name to count
    tasks,       \* tasks[s]: an accessor call that has not returned yet
    calls,       \* how many calls of the client's methods were made
    ticks,       \* how many times the clock moved
    netCalls,    \* netCalls[c]: how many times httpClient.get was called
    invoked,     \* invoked[c][m]: calls of accessor m since the last reset
    retry,       \* the call of retryWithBackoff that is running or ran last
    last         \* what the last step did

vars == <<now, cacheTtl, timeout, retry, cache, callCounts, tasks, calls, ticks, netCalls, invoked, last>>

MaxCalls == 2

MaxTasks == 2

Clients == {"c1", "c2"}

Slots == 1..MaxTasks

\* The steps the clock makes: into a window of one second, and to its far
\* end.
Deltas == {500, MillisPerSecond}

Accessors ==
    {"getNetworkSupply", "getNetworkNodes", "getNetworkExchangeRate", "getAccountInfo",
     "getAccountBalance", "getAccountTokens", "getTopTokens", "getTokenInfo",
     "getBonzoMarkets", "getBonzoReserves", "getBonzoTotalMarkets", "getSaucerSwapPools",
     "getSaucerSwapTokens", "getSaucerSwapStats", "getCrossProtocolLiquiditySummary",
     "getAllTokenImages"}

Idle == [st |-> "idle"]

\* A call in its first request; sent is the time its request was started at,
\* req the number of its network call among those of the client (0 when the
\* cache answered).
NewTask(c, op, args) ==
    [st |-> "new", c |-> c, op |-> op, args |-> args, idx |-> 1, leaf |-> "", src |-> "",
     key |-> "", data |-> Undefined, acc |-> <<>>, times |-> <<>>, outs |-> <<>>,
     t0 |-> now, sent |-> now, req |-> 0]

\* What a step did: the accessor concerned; the request it started (key, and
\* whether the cache answered it); the request whose network call came back
\* (rkey, the outcome of the call, the data the request returned, the warning
\* it logged, whether it wrote the cache); whether the accessor returned,
\* with what result or what error, and what the network calls of its requests
\* had come to (undefined for a request the cache answered); advice is the
\* method trackCall warned about ("" when it did not warn); req is the
\* number of the network call that came back, old the entry its key had
\* before (undefined when it had none), cleared whether clearCache of the
\* client was the step before its return.  prior is the
\* last liquidity summary a client got before this step: its business
\* fields, whether all of its requests were answered by the network with a
\* body, and the cache and the network calls of the client when it returned.
Event(ev, c, op, args, key, hit, back, done, raised, result) ==
    [ev |-> ev, c |-> c, op |-> op, args |-> args, key |-> key, hit |-> hit,
     rkey |-> back.rkey, outcome |-> back.outcome, rdata |-> back.rdata,
     warn |-> back.warn, stored |-> back.stored, req |-> back.req, old |-> back.old,
     cleared |-> back.cleared,
     done |-> done, raised |-> raised, result |-> result, outs |-> <<>>,
     prior |-> Undefined, advice |-> ""]

NoneBack ==
    [rkey |-> "", outcome |-> Undefined, rdata |-> Undefined, warn |-> "", stored |-> FALSE,
     req |-> 0, old |-> Undefined, cleared |-> FALSE]

\* The last liquidity summary that returned a record, as of the state the
\* step leaves.
Remembered ==
    IF last.done /\ last.op = "getCrossProtocolLiquiditySummary" /\ last.raised = ""
    THEN [c |-> last.c,
          business |-> [k \in {"totalLiquidityUsd", "saucerswap", "bonzoFinance",
                               "protocolDistribution"} |-> last.result.f[k]],
          fetched |-> \A i \in 1..Len(last.outs) :
                         /\ last.outs[i] # Undefined
                         /\ last.outs[i].resolved /\ last.outs[i].status = Ok
                         /\ Truthy(last.outs[i].data),
          entries |-> cache[last.c],
          net |-> netCalls[last.c]]
    ELSE last.prior

\* The accessor of task tk returns: with result, or throwing it.
Finish(slot, tk, result, counts, entries, ev, back) ==
    /\ tasks' = [tasks EXCEPT ![slot] = Idle]
    /\ callCounts' = [callCounts EXCEPT ![tk.c] = counts]
    /\ cache' = [cache EXCEPT ![tk.c] = entries]
    /\ netCalls' = netCalls
    /\ last' = [Event(ev, tk.c, tk.op, tk.args, "", FALSE, back, TRUE,
                      IF Threw(result) THEN result.msg ELSE "",
                      IF Threw(result) THEN Undefined ELSE result)
                EXCEPT !.outs = tk.outs, !.prior = Remembered]

\* Task tk runs on from its request number tk.idx, with the cache entries:
\* when there is no such request the accessor returns; else the accessor of
\* that request counts the call and the request looks into the cache, to
\* return what it finds there or to call the network and wait.
Run(slot, tk, entries, ev, back) ==
    \E prog \in {Program(tk.op, tk.args)} :
        IF tk.idx > Len(prog)
        THEN \E result \in {Combine(tk.op, tk.args, tk.acc, tk.times, tk.t0, now)} :
                 Finish(slot, tk, result, callCounts[tk.c], entries, ev, back)
        ELSE \E name \in {prog[tk.idx]} :
             \E leaf \in {LeafOf(name, tk.args)} :
             \E counts \in {IF leaf.track # "" THEN trackCall(callCounts[tk.c], leaf.track)
                             ELSE callCounts[tk.c]} :
             \E advice \in {IF leaf.track # "" /\ trackCallWarns(callCounts[tk.c], leaf.track)
                             THEN leaf.track ELSE ""} :
             \E key \in {CacheKey(leaf.src, leaf.path, leaf.params)} :
             \E hit \in {CacheHit(leaf.src, entries, key, now, cacheTtl[tk.c])} :
             \E failed \in {PathError(leaf.src, leaf.path)} :
                 IF failed # ""
                 THEN Finish(slot, tk, [t |-> "throw", msg |-> failed],
                             counts, entries, ev, back)
                 ELSE /\ tasks' = [tasks EXCEPT ![slot] =
                            [tk EXCEPT !.st = IF hit THEN "ready" ELSE "waiting",
                                       !.leaf = name, !.src = leaf.src, !.key = key,
                                       !.sent = now,
                                       !.req = IF hit THEN 0 ELSE netCalls[tk.c] + 1,
                                       !.data = IF hit THEN CachedData(entries, key)
                                                ELSE Undefined]]
                      /\ callCounts' = [callCounts EXCEPT ![tk.c] = counts]
                      /\ cache' = [cache EXCEPT ![tk.c] = entries]
                      /\ netCalls' = IF hit THEN netCalls
                                     ELSE [netCalls EXCEPT ![tk.c] = @ + 1]
                      /\ last' = [Event(ev, tk.c, tk.op, tk.args, key, hit, back, FALSE,
                                        "", Undefined)
                                  EXCEPT !.prior = Remembered, !.advice = advice]

\* The request task tk waited for has returned data: the accessor of that
\* request makes its result of it, and the task runs on.
After(slot, tk, data, entries, ev, back) ==
    \E r \in {LeafResult(tk.leaf, tk.args, data, now)} :
        \E came \in {[tk EXCEPT !.outs = Append(@, back.outcome)]} :
            IF Threw(r) THEN Finish(slot, came, r, callCounts[tk.c], entries, ev, back)
            ELSE \E next \in {[came EXCEPT !.idx = @ + 1, !.acc = Append(@, r),
                                            !.times = Append(@, now)]} :
                     Run(slot, next, entries, ev, back)

FreeSlot == CHOOSE s \in Slots : tasks[s] = Idle /\ \A r \in Slots : tasks[r] = Idle => s <= r

\* A caller calls accessor op of client c: the validation, then the first
\* request up to its await.
Call(c, op, args) ==
    /\ \E s \in Slots : tasks[s] = Idle
    /\ calls' = calls + 1
    /\ invoked' = [invoked EXCEPT ![c][op] = @ + 1]
    /\ UNCHANGED <<now, ticks, cacheTtl, timeout, retry>>
    /\ IF ValidationError(op, args) # ""
       THEN /\ UNCHANGED <<cache, callCounts, tasks, netCalls>>
            /\ last' = [Event("call", c, op, args, "", FALSE, NoneBack, TRUE,
                              ValidationError(op, args), Undefined)
                        EXCEPT !.prior = Remembered]
       ELSE \E tk \in {NewTask(c, op, args)} : Run(FreeSlot, tk, cache[c], "call", NoneBack)

\* The accessors.
getNetworkSupply(c) == Call(c, "getNetworkSupply", NoArgs)

getNetworkNodes(c) == Call(c, "getNetworkNodes", NoArgs)

getNetworkExchangeRate(c) == Call(c, "getNetworkExchangeRate", NoArgs)

getAccountInfo(c, accountId) == Call(c, "getAccountInfo", Args(accountId, Undefined, "", Undefined))

getAccountBalance(c, accountId) ==
    Call(c, "getAccountBalance", Args(accountId, Undefined, "", Undefined))

getAccountTokens(c, accountId) ==
    Call(c, "getAccountTokens", Args(accountId, Undefined, "", Undefined))

getTopTokens(c, limit, sortBy) == Call(c, "getTopTokens", Args(<<>>, limit, sortBy, Undefined))

getTokenInfo(c, tokenId) == Call(c, "getTokenInfo", Args(tokenId, Undefined, "", Undefined))

getBonzoMarkets(c) == Call(c, "getBonzoMarkets", NoArgs)

getBonzoReserves(c, cachedData) ==
    Call(c, "getBonzoReserves", Args(<<>>, Undefined, "", cachedData))

getBonzoTotalMarkets(c, cachedData) ==
    Call(c, "getBonzoTotalMarkets", Args(<<>>, Undefined, "", cachedData))

getSaucerSwapPools(c) == Call(c, "getSaucerSwapPools", NoArgs)

getSaucerSwapTokens(c) == Call(c, "getSaucerSwapTokens", NoArgs)

getSaucerSwapStats(c) == Call(c, "getSaucerSwapStats", NoArgs)

getCrossProtocolLiquiditySummary(c) == Call(c, "getCrossProtocolLiquiditySummary", NoArgs)

getAllTokenImages(c) == Call(c, "getAllTokenImages", NoArgs)

\* The await of a request the cache answered is over: the task runs on.
Resume(s) ==
    /\ tasks[s] # Idle
    /\ tasks[s].st = "ready"
    /\ UNCHANGED <<now, ticks, cacheTtl, timeout, retry, calls, invoked>>
    /\ \E tk \in {tasks[s]} : After(s, tk, tk.data, cache[tk.c], "resume", NoneBack)

\* The network call of a waiting request comes to the outcome o: the request
\* stores and returns as its path does, and the task runs on.
Respond(s, o) ==
    /\ tasks[s] # Idle
    /\ tasks[s].st = "waiting"
    /\ UNCHANGED <<now, ticks, cacheTtl, timeout, retry, calls, invoked>>
    /\ \E tk \in {tasks[s]} :
       \E ret \in {Return(tk.src, o)} :
       \E entries \in {IF ret.store THEN CacheSet(cache[tk.c], tk.key, ret.data, now)
                        ELSE cache[tk.c]} :
           After(s, tk, ret.data, entries, "response",
                 [rkey |-> tk.key, outcome |-> o, rdata |-> ret.data, warn |-> ret.warn,
                  stored |-> ret.store, req |-> tk.req,
                  old |-> IF tk.key \in DOMAIN cache[tk.c] THEN cache[tk.c][tk.key]
                          ELSE Undefined,
                  cleared |-> last.ev = "sync" /\ last.op = "clearCache" /\ last.c = tk.c])

RECURSIVE SumOver(_, _)
SumOver(counts, names) ==
    IF names = {} THEN 0
    ELSE LET m == CHOOSE x \in names : TRUE
         IN  counts[m] + SumOver(counts, names \ {m})

\* The report of showCallStatistics.
CallStatisticsOf(counts) ==
    [t |-> "statistics",
     callCounts |-> counts,
     totalCalls |-> SumOver(counts, DOMAIN counts),
     uniqueMethods |-> Cardinality(DOMAIN counts),
     excessiveMethods |-> {m \in DOMAIN counts : counts[m] > ExcessiveThreshold}]

Sync(c, op, result) ==
    [Event("sync", c, op, NoArgs, "", FALSE, NoneBack, TRUE, "", result)
     EXCEPT !.prior = Remembered]

showCallStatistics(c) ==
    /\ calls' = calls + 1
    /\ last' = Sync(c, "showCallStatistics", CallStatisticsOf(callCounts[c]))
    /\ UNCHANGED <<now, cacheTtl, timeout, retry, cache, callCounts, tasks, ticks, netCalls, invoked>>

\* A reset that clears the cache as well.
resetCallCountsAndCache(c) ==
    /\ calls' = calls + 1
    /\ callCounts' = [callCounts EXCEPT ![c] = <<>>]
    /\ cache' = [cache EXCEPT ![c] = <<>>]
    /\ invoked' = [invoked EXCEPT ![c] = [m \in Accessors |-> 0]]
    /\ last' = Sync(c, "resetCallCounts", Undefined)
    /\ UNCHANGED <<now, cacheTtl, timeout, retry, tasks, ticks, netCalls>>

resetCallCounts(c) ==
    /\ calls' = calls + 1
    /\ callCounts' = [callCounts EXCEPT ![c] = <<>>]
    /\ invoked' = [invoked EXCEPT ![c] = [m \in Accessors |-> 0]]
    /\ last' = Sync(c, "resetCallCounts", Undefined)
    /\ UNCHANGED <<now, cacheTtl, timeout, retry, cache, tasks, ticks, netCalls>>

\* A cache that all clients share.
clearCacheShared(c) ==
    /\ calls' = calls + 1
    /\ cache' = [d \in Clients |-> <<>>]
    /\ last' = Sync(c, "clearCache", Undefined)
    /\ UNCHANGED <<now, cacheTtl, timeout, retry, callCounts, tasks, ticks, netCalls, invoked>>

\* A clear that drops the requests of the client that are in flight too.
clearCacheAndInFlight(c) ==
    /\ calls' = calls + 1
    /\ cache' = [cache EXCEPT ![c] = <<>>]
    /\ tasks' = [s \in Slots |-> IF tasks[s].st = "waiting" /\ tasks[s].c = c
                                 THEN Idle ELSE tasks[s]]
    /\ last' = Sync(c, "clearCache", Undefined)
    /\ UNCHANGED <<now, cacheTtl, timeout, retry, callCounts, ticks, netCalls, invoked>>

clearCache(c) ==
    /\ calls' = calls + 1
    /\ cache' = [cache EXCEPT ![c] = <<>>]
    /\ last' = Sync(c, "clearCache", Undefined)
    /\ UNCHANGED <<now, cacheTtl, timeout, retry, callCounts, tasks, ticks, netCalls, invoked>>

getCacheStats(c) ==
    /\ last' = Sync(c, "getCacheStats",
                    [t |-> "cacheStats", size |-> Cardinality(DOMAIN cache[c]),
                     entries |-> DOMAIN cache[c]])
    /\ calls' = calls + 1
    /\ UNCHANGED <<now, cacheTtl, timeout, retry, cache, callCounts, tasks, ticks, netCalls, invoked>>

\* Time passes.
Advance(d) ==
    /\ now' = now + d
    /\ ticks' = ticks + 1
    /\ last' = [Event("tick", "", "", NoArgs, "", FALSE, NoneBack, FALSE, "", Undefined)
                EXCEPT !.prior = Remembered]
    /\ UNCHANGED <<cacheTtl, timeout, retry, cache, callCounts, tasks, calls, netCalls, invoked>>

\* retryWithBackoff, the head of its loop (attempt <= maxRetries): fn is
\* invoked, or the loop is over and 'Max retries exceeded' is thrown.
RetryLoop(r) ==
    IF LessEq(Num(r.attempt), r.maxRetries)
    THEN [r EXCEPT !.st = "calling", !.invocations = @ + 1]
    ELSE [r EXCEPT !.st = "thrown", !.error = "Max retries exceeded"]

\* A caller calls retryWithBackoff(fn, maxRetries, baseDelay, maxDelay).
\* invocations counts the calls of fn, errors lists what fn threw, waits the
\* delays slept.
retryWithBackoff(maxRetries, baseDelay, maxDelay) ==
    /\ retry.st \in {"idle", "returned", "thrown"}
    /\ retry' = RetryLoop([st |-> "new", attempt |-> 1, maxRetries |-> maxRetries,
                           baseDelay |-> baseDelay, maxDelay |-> maxDelay,
                           invocations |-> 0, errors |-> <<>>, waits |-> <<>>,
                           until |-> 0, result |-> "", error |-> ""])
    /\ calls' = calls + 1
    /\ UNCHANGED <<now, cacheTtl, timeout, cache, callCounts, tasks, ticks, netCalls, invoked,
                   last>>

\* await fn() returns value: retryWithBackoff returns it.
FnResolves(value) ==
    /\ retry.st = "calling"
    /\ retry' = [retry EXCEPT !.st = "returned", !.result = value]
    /\ UNCHANGED <<now, cacheTtl, timeout, cache, callCounts, tasks, calls, ticks, netCalls,
                   invoked, last>>

\* await fn() throws error: it is thrown on when attempt === maxRetries,
\* else sleep(delay) is awaited.
FnRejects(error) ==
    /\ retry.st = "calling"
    /\ retry' = IF Num(retry.attempt) = retry.maxRetries
                THEN [retry EXCEPT !.st = "thrown", !.error = error,
                                   !.errors = Append(@, error)]
                ELSE [retry EXCEPT !.st = "sleeping", !.errors = Append(@, error),
                                   !.until = now + BackoffDelay(retry.attempt, retry.baseDelay,
                                                                retry.maxDelay)]
    /\ UNCHANGED <<now, cacheTtl, timeout, cache, callCounts, tasks, calls, ticks, netCalls,
                   invoked, last>>

\* The timer of sleep(delay) fires: attempt++, and the loop goes on.
SleepEnds ==
    /\ retry.st = "sleeping"
    /\ now' = retry.until
    /\ retry' = RetryLoop([retry EXCEPT !.attempt = @ + 1,
                                        !.waits = Append(@, retry.until - now)])
    /\ UNCHANGED <<cacheTtl, timeout, cache, callCounts, tasks, calls, ticks, netCalls,
                   invoked, last>>

\* A caller calls parseUsdValue(usdString).
CallParseUsdValue(usdString) ==
    /\ calls' = calls + 1
    /\ last' = [Event("util", "", "parseUsdValue", NoArgs, "", FALSE, NoneBack, TRUE, "",
                      parseUsdValue(usdString))
                EXCEPT !.prior = Remembered, !.args = [usdString |-> usdString]]
    /\ UNCHANGED <<now, cacheTtl, timeout, retry, cache, callCounts, tasks, ticks, netCalls,
                   invoked>>

\* The clients after construction, with the cacheTtl and the timeout each
\* was configured with (undefined when the configuration gives none).
Constructed(config) ==
    /\ now = 0
    /\ cacheTtl = [c \in Clients |-> CacheTtlOf(config[c].cacheTtl).n]
    /\ timeout = [c \in Clients |-> TimeoutOf(config[c].timeout).n]
    /\ cache = [c \in Clients |-> <<>>]
    /\ callCounts = [c \in Clients |-> <<>>]
    /\ tasks = [s \in Slots |-> Idle]
    /\ calls = 0
    /\ ticks = 0
    /\ netCalls = [c \in Clients |-> 0]
    /\ invoked = [c \in Clients |-> [m \in Accessors |-> 0]]
    /\ retry = [st |-> "idle"]
    /\ last = Event("init", "", "", NoArgs, "", FALSE, NoneBack, FALSE, "", Undefined)

\* The tasks that wait for the network, and those that have not returned.
Waiting == {s \in Slots : tasks[s].st = "waiting"}

Busy == {s \in Slots : tasks[s] # Idle}

\* One well-formed body and one failure for each request.
Replies(name) ==
    {Resolved(Ok, CHOOSE b \in Bodies(name) : TRUE),
     Rejected(TRUE, 0, "ECONNABORTED")}

\* ------------------------------------------------------------------------
\* Spec: one client, every accessor with arguments that pass its validation
\* and arguments that do not, one call after the other.
\* ------------------------------------------------------------------------

Init == Constructed([c \in Clients |-> [cacheTtl |-> Num(1), timeout |-> Num(1000)]])

Calls(c) ==
    \/ getNetworkSupply(c)
    \/ getNetworkNodes(c)
    \/ getNetworkExchangeRate(c)
    \/ \E id \in Ids : getAccountInfo(c, id)
    \/ \E id \in Ids : getAccountBalance(c, id)
    \/ \E id \in Ids : getAccountTokens(c, id)
    \/ \E limit \in Limits, sortBy \in SortBys : getTopTokens(c, limit, sortBy)
    \/ \E id \in Ids : getTokenInfo(c, id)
    \/ getBonzoMarkets(c)
    \/ \E cachedData \in {Undefined} : getBonzoReserves(c, cachedData)
    \/ \E cachedData \in {Undefined} : getBonzoTotalMarkets(c, cachedData)
    \/ getSaucerSwapPools(c)
    \/ getSaucerSwapTokens(c)
    \/ getSaucerSwapStats(c)
    \/ getCrossProtocolLiquiditySummary(c)
    \/ getAllTokenImages(c)

Next ==
    \/ calls < MaxCalls /\ Busy = {} /\ Calls("c1")
    \/ calls < MaxCalls /\ resetCallCounts("c1")
    \/ calls < MaxCalls /\ clearCache("c1")
    \/ \E s \in Slots : Resume(s)
    \/ \E s \in Waiting : \E o \in Replies(tasks[s].leaf) : Respond(s, o)

Spec == Init /\ [][Next]_vars

\* ------------------------------------------------------------------------
\* SpecCache: one accessor for each request path, overlapping calls, every
\* outcome of the network call, the clock up to the end of the window.
\* ------------------------------------------------------------------------

CacheCalls == 2

CacheTicks == 1


Outcomes(name) == Successes(name) \cup Uncacheable(name) \cup Failures

NextCache ==
    \/ calls < CacheCalls /\ getNetworkSupply("c1")
    \/ calls < CacheCalls /\ getSaucerSwapStats("c1")
    \/ calls < CacheCalls /\ getBonzoMarkets("c1")
    \/ calls < CacheCalls /\ clearCache("c1")
    \/ calls < CacheCalls /\ resetCallCounts("c1")
    \/ calls < CacheCalls /\ getCacheStats("c1")
    \/ \E s \in Slots : Resume(s)
    \/ \E s \in Waiting : \E o \in Outcomes(tasks[s].leaf) : Respond(s, o)
    \/ \E d \in Deltas : ticks < CacheTicks /\ Advance(d)

SpecCache == Init /\ [][NextCache]_vars

\* ------------------------------------------------------------------------
\* SpecShapes: every accessor, called with valid arguments one call after the
\* other, against bodies of unexpected shape.
\* ------------------------------------------------------------------------

ShapeCalls == 2

ValidId == CHOOSE id \in ValidIds : TRUE

ValidCalls(c) ==
    \/ getNetworkSupply(c)
    \/ getNetworkNodes(c)
    \/ getNetworkExchangeRate(c)
    \/ getAccountInfo(c, ValidId)
    \/ getAccountBalance(c, ValidId)
    \/ getAccountTokens(c, ValidId)
    \/ getTopTokens(c, Num(1), "supply")
    \/ getTokenInfo(c, ValidId)
    \/ getBonzoMarkets(c)
    \/ getBonzoReserves(c, Undefined)
    \/ getBonzoTotalMarkets(c, Undefined)
    \/ getSaucerSwapPools(c)
    \/ getSaucerSwapTokens(c)
    \/ getSaucerSwapStats(c)
    \/ getCrossProtocolLiquiditySummary(c)
    \/ getAllTokenImages(c)

NextShapes ==
    \/ calls < ShapeCalls /\ Busy = {} /\ ValidCalls("c1")
    \/ \E s \in Slots : Resume(s)
    \/ \E s \in Waiting :
          \E o \in Replies(tasks[s].leaf) \cup Malformed(tasks[s].leaf) : Respond(s, o)

SpecShapes == Init /\ [][NextShapes]_vars

\* ------------------------------------------------------------------------
\* SpecSummary: the liquidity summary, one call after the other, against the
\* DEX and lending bodies and their failures, the clock up to the end of the
\* window.
\* ------------------------------------------------------------------------

SummaryCalls == 2

SummaryOutcomes(name) ==
    Successes(name) \cup {Rejected(TRUE, 0, "ECONNABORTED"), Rejected(TRUE, 500, "")}
    \cup (IF name = "getBonzoMarkets" THEN {Resolved(Ok, b) : b \in MarketDisplays} ELSE {})

NextSummary ==
    \/ calls < SummaryCalls /\ Busy = {} /\ getCrossProtocolLiquiditySummary("c1")
    \/ \E s \in Slots : Resume(s)
    \/ \E s \in Waiting : \E o \in SummaryOutcomes(tasks[s].leaf) : Respond(s, o)
    \/ \E d \in Deltas : ticks < CacheTicks /\ Advance(d)

SpecSummary == Init /\ [][NextSummary]_vars

\* ------------------------------------------------------------------------
\* SpecClients: two clients, each fetching by two of the request paths,
\* clearing its cache, resetting its counts and reading its statistics, their
\* calls overlapping.
\* ------------------------------------------------------------------------

ClientCalls == 4

NextClients ==
    \/ \E c \in Clients : calls < ClientCalls /\ getNetworkSupply(c)
    \/ \E c \in Clients : calls < ClientCalls /\ getSaucerSwapStats(c)
    \/ \E c \in Clients : calls < ClientCalls /\ clearCache(c)
    \/ \E c \in Clients : calls < ClientCalls /\ resetCallCounts(c)
    \/ \E c \in Clients : calls < ClientCalls /\ showCallStatistics(c)
    \/ \E c \in Clients : calls < ClientCalls /\ getCacheStats(c)
    \/ \E s \in Slots : Resume(s)
    \/ \E s \in Waiting : \E o \in Replies(tasks[s].leaf) : Respond(s, o)

SpecClients == Init /\ [][NextClients]_vars

\* ------------------------------------------------------------------------
\* SpecTimeout: requests under the timer of the HTTP client.  The upstream
\* answers before the timeout or not at all; when it has not answered
\* timeout milliseconds after the request was started, the timer rejects the
\* network call with ECONNABORTED.  Time does not pass the end of a timer
\* that has not fired.
\* ------------------------------------------------------------------------

TimeoutCalls == 2

\* A client without a timer.
ExpiredNever(tk, t) == FALSE

\* axios.create({timeout: this.timeout}): the timer of the request of task
\* tk has run out at time t.
Expired(tk, t) == t - tk.sent >= timeout[tk.c]

\* The upstream answers the request of task s in time.
Answer(s, o) ==
    /\ tasks[s] # Idle
    /\ tasks[s].st = "waiting"
    /\ ~Expired(tasks[s], now)
    /\ Respond(s, o)

\* The timer of the request of task s fires.
Expire(s) ==
    /\ tasks[s] # Idle
    /\ tasks[s].st = "waiting"
    /\ Expired(tasks[s], now)
    /\ Respond(s, Rejected(TRUE, 0, "ECONNABORTED"))

\* Time passes while requests wait, up to the end of the nearest timer.
Pass(d) ==
    /\ Waiting # {}
    /\ \A s \in Waiting : now + d <= tasks[s].sent + timeout[tasks[s].c]
    /\ Advance(d)

NextTimeout ==
    \/ calls < TimeoutCalls /\ getNetworkSupply("c1")
    \/ calls < TimeoutCalls /\ getSaucerSwapStats("c1")
    \/ calls < TimeoutCalls /\ clearCache("c1")
    \/ \E s \in Slots : Resume(s)
    \/ \E s \in Waiting : \E o \in Successes(tasks[s].leaf) : Answer(s, o)
    \/ \E s \in Waiting : Expire(s)
    \/ \E d \in Deltas : Pass(d)

\* The event loop runs the continuation of every await that is over, fires
\* every timer that has run out, and time passes; the upstream owes no
\* answer.
SpecTimeout ==
    /\ Init /\ [][NextTimeout]_vars
    /\ WF_vars(\E s \in Slots : Resume(s))
    /\ WF_vars(\E s \in Waiting : Expire(s))
    /\ WF_vars(\E d \in Deltas : Pass(d))

\* ------------------------------------------------------------------------
\* SpecTtl: a client configured with cacheTtl 0 and a client configured with
\* none, each fetching by the three request paths, one call after the other,
\* while the clock moves into the default window and to its far end.
\* ------------------------------------------------------------------------

TtlCalls == 3

TtlTicks == 2

TtlConfig ==
    [c \in Clients |-> [cacheTtl |-> IF c = "c1" THEN Num(0) ELSE Undefined,
                        timeout |-> Num(1000)]]

InitTtl == Constructed(TtlConfig)

\* The steps of the clock: into the default window, and on to its far end.
TtlDeltas == {500, DefaultCacheTtl * MillisPerSecond - 500}

NextTtl ==
    \/ \E c \in Clients : calls < TtlCalls /\ Busy = {} /\ getNetworkSupply(c)
    \/ \E c \in Clients : calls < TtlCalls /\ Busy = {} /\ getSaucerSwapStats(c)
    \/ \E c \in Clients : calls < TtlCalls /\ Busy = {} /\ getBonzoMarkets(c)
    \/ \E s \in Slots : Resume(s)
    \/ \E s \in Waiting : \E o \in Replies(tasks[s].leaf) : Respond(s, o)
    \/ \E d \in TtlDeltas : ticks < TtlTicks /\ Advance(d)

SpecTtl == InitTtl /\ [][NextTtl]_vars

\* ------------------------------------------------------------------------
\* SpecStats: one client whose two accessors are called, one call after the
\* other, more often than both thresholds of the tracker, with the report
\* asked for in between.
\* ------------------------------------------------------------------------

StatsCalls == 12

NextStats ==
    \/ calls < StatsCalls /\ Busy = {} /\ getNetworkSupply("c1")
    \/ calls < StatsCalls /\ Busy = {} /\ getSaucerSwapStats("c1")
    \/ calls < StatsCalls /\ Busy = {} /\ showCallStatistics("c1")
    \/ \E s \in Slots : Resume(s)
    \/ \E s \in Waiting : \E o \in Replies(tasks[s].leaf) : Respond(s, o)

SpecStats == Init /\ [][NextStats]_vars

\* ------------------------------------------------------------------------
\* SpecUtils: the utility functions called on their own: parseUsdValue on
\* amounts, on strings that are no amounts and on values that are no
\* strings; retryWithBackoff with an fn that resolves or rejects at each
\* invocation, for retry counts on both sides of 0, one that is no whole
\* number, and delays that reach the cap.
\* ------------------------------------------------------------------------

UtilCalls == 2

UsdStrings ==
    {Undefined, Null, Num(5), Str(<<>>), Str(<<"0">>), Str(<<"7">>),
     Str(<<"$", "1", ",", "2", "3", "4", ",", "5", "6", "7", ".", "8", "9">>),
     Str(<<"$", "1", ",", "5", "0", "0", ".", "5", "0">>),
     Str(<<"$", "$", "1", ",", ",", "0">>), Str(<<"-", "$", "3">>),
     Str(<<"N", "/", "A">>), Str(<<"$">>), Str(<<"a", "b", "c">>)}

RetryCounts == {Num(-1), Num(0), Num(1), Num(2), Num(4), Rat(5, 2)}

BaseDelays == {1000, 4000}

MaxDelays == {10000}

FnValues == {"v1", "v2"}

FnErrors == {"e1", "e2"}

NextUtils ==
    \/ \E usdString \in UsdStrings : calls < UtilCalls /\ CallParseUsdValue(usdString)
    \/ \E maxRetries \in RetryCounts, baseDelay \in BaseDelays, maxDelay \in MaxDelays :
           calls < UtilCalls /\ retryWithBackoff(maxRetries, baseDelay, maxDelay)
    \/ \E value \in FnValues : FnResolves(value)
    \/ \E error \in FnErrors : FnRejects(error)
    \/ SleepEnds

SpecUtils == Init /\ [][NextUtils]_vars

\* ========================================================================
\* Properties
\* ========================================================================

\* What the properties speak of.

\* The slots whose task starts a request in this step.
Started == {s \in Slots : tasks'[s] # Idle /\ tasks'[s] # tasks[s]}

\* The entry of key is in entries and younger than the window of ttl seconds.
Fresh(entries, key, ttl) ==
    key \in DOMAIN entries /\ now - entries[key].timestamp < ttl * MillisPerSecond

\* The network call did not come to a 200: it was rejected (no connection,
\* the timeout, an error status, 429) or resolved with another status.
TransportFailed(o) == ~o.resolved \/ o.status # 200

\* The count recorded for method m (0 when there is none).
CountIn(counts, m) == IF m \in DOMAIN counts THEN counts[m] ELSE 0

CountOf(c, m) == CountIn(callCounts[c], m)

\* "0.0." followed by one or more decimal digits.
IsAccountId(id) ==
    /\ Len(id) > 4
    /\ \A i \in 1..Len(id) :
          IF i \in {1, 3} THEN id[i] = "0"
          ELSE IF i \in {2, 4} THEN id[i] = "."
          ELSE id[i] \in {"0", "1", "2", "3", "4", "5", "6", "7", "8", "9"}

HasIdPrefix(id) ==
    Len(id) >= 4 /\ id[1] = "0" /\ id[2] = "." /\ id[3] = "0" /\ id[4] = "."

\* The arguments pass for valid ones: an account id, a token id with the
\* prefix, a limit from 1 to 1000.
ValidArgs(op, args) ==
    CASE op \in {"getAccountInfo", "getAccountBalance", "getAccountTokens"} ->
             IsAccountId(args.id)
      [] op = "getTokenInfo" -> HasIdPrefix(args.id)
      [] op = "getTopTokens" ->
             ~Greater(Num(1), args.limit) /\ ~Greater(args.limit, Num(1000))
      [] OTHER -> TRUE

\* A step in which a caller calls an accessor.
IsCall == calls' = calls + 1 /\ last'.ev = "call"

\* The step has no effect on the client: no request is started, and the
\* cache, the call counts and the network are as they were.
NoEffect ==
    /\ cache' = cache /\ callCounts' = callCounts /\ netCalls' = netCalls /\ tasks' = tasks

\* The liquidity summary has returned a record.
SummaryReturned ==
    /\ last.done /\ last.op = "getCrossProtocolLiquiditySummary" /\ last.raised = ""
    /\ last.result.t = "object"

\* The network call of a request failed (a request the cache answered made
\* none).
RequestFailed(o) == o # Undefined /\ TransportFailed(o)

\* The network call of a request came to a 200 with a body.
Fetched(o) == o # Undefined /\ o.resolved /\ o.status = 200 /\ Truthy(o.data)

\* The string a lending payload displays its total supplied with, under the
\* one of the two upstream namings the payload uses.
DisplayedSupply(body) ==
    IF "total_market_supplied" \in DOMAIN body.f
    THEN Get(Get(body, "total_market_supplied"), "usd_display")
    ELSE Get(Get(body, "totalMarketSupplied"), "usdDisplay")

\* The requests of the summary, in the order it makes them: two of the DEX,
\* one of the lending market.
DexRequests == {1, 2}

LendingRequests == {3}

\* The names of the fields of the summary and of its two protocol records.
SummaryFields ==
    {"totalLiquidityUsd", "saucerswap", "bonzoFinance", "protocolDistribution", "timestamp",
     "performance"}

\* The summary that both sources make when they succeed with the bodies
\* stats, pools and markets.
SummaryOfBodies(stats, pools, markets) ==
    CrossProtocolLiquiditySummaryOf(SaucerSwapStatsOf(stats), SaucerSwapListOf(pools),
                                    BonzoMarketsOf(markets, now), now, now, now)

\* The cache keys of the three requests of the summary.
SummaryKeys == {"saucer:stats", "saucer:pools", "bonzo:Market"}

\* The business fields of a summary: all but its timestamp and its timings.
Business(summary) ==
    [k \in {"totalLiquidityUsd", "saucerswap", "bonzoFinance", "protocolDistribution"} |->
        summary.f[k]]

\* The summary before this one was made of three fetched bodies, and the
\* entries it left in the cache of client c are still there, younger than
\* the window.
PriorStillFresh(c) ==
    /\ last.prior # Undefined /\ last.prior.c = c
    /\ last.prior.fetched
    /\ \A k \in SummaryKeys :
          /\ k \in DOMAIN cache[c] /\ k \in DOMAIN last.prior.entries
          /\ cache[c][k] = last.prior.entries[k]
          /\ Fresh(cache[c], k, cacheTtl[c])

\* The fields the record types declare without a question mark.
SupplyFields == {"totalSupply", "circulatingSupply", "timestamp"}

NodeFields == {"nodeId", "nodeAccountId"}

StatsFields == {"tvlUsd", "volumeTotalUsd", "swapTotal", "circulatingSauce"}

MarketFields ==
    {"chainId", "networkName", "totalMarketSupplied", "totalMarketBorrowed",
     "totalMarketLiquidity", "totalMarketReserve", "reserves", "timestamp"}

ReserveFields ==
    {"symbol", "active", "supplyApy", "variableBorrowApy", "utilizationRate",
     "availableLiquidity", "ltv", "liquidationThreshold"}

\* v is a record in which none of the fields names is undefined.
Populated(v, names) == v.t = "object" /\ \A k \in names : Get(v, k) # Undefined

\* v is an array of such records.
AllPopulated(v, names) == v.t = "array" /\ \A i \in 1..Len(v.a) : Populated(v.a[i], names)

\* The fields of a lending reserve that have two upstream names: the
\* snake_case name, the camelCase name, which is also the name of the field
\* getBonzoMarkets outputs.
ReserveNames ==
    {<<"supply_apy", "supplyApy">>,
     <<"variable_borrow_apy", "variableBorrowApy">>,
     <<"stable_borrow_apy", "stableBorrowApy">>,
     <<"utilization_rate", "utilizationRate">>,
     <<"available_liquidity", "availableLiquidity">>,
     <<"total_borrowable_liquidity", "totalBorrowableLiquidity">>,
     <<"liquidation_threshold", "liquidationThreshold">>,
     <<"liquidation_bonus", "liquidationBonus">>,
     <<"variable_borrowing_enabled", "variableBorrowingEnabled">>,
     <<"stable_borrowing_enabled", "stableBorrowingEnabled">>}

\* The zero or empty default of those of the fields the record type declares
\* without a question mark.
ReserveDefaults ==
    [supplyApy |-> Num(0), variableBorrowApy |-> Num(0), utilizationRate |-> Num(0),
     availableLiquidity |-> Obj([usdDisplay |-> Str(<<"0">>)]),
     liquidationThreshold |-> Num(0)]

\* A step in which client c calls its synchronous method op, and the step
\* that follows such a call.
IsSync(c, op) == calls' = calls + 1 /\ last'.ev = "sync" /\ last'.c = c /\ last'.op = op

WasSync(c, op) == last.ev = "sync" /\ last.c = c /\ last.op = op

\* The properties.

\* C1: a request that finds a fresh entry for its key returns exactly the
\* payload of that entry and makes no network call, on each of the three
\* request paths.
C1_HitReturnsCachedPayload ==
    [][\A s \in Started :
          LET tk == tasks'[s]
          IN  Fresh(cache'[tk.c], tk.key, cacheTtl[tk.c]) =>
                  /\ tk.st = "ready"
                  /\ tk.data = cache'[tk.c][tk.key].data
                  /\ netCalls' = netCalls]_vars

\* A second call of getBonzoMarkets is answered from the cache: one network
\* call was made for two calls.
C1_Witness ==
    /\ last.ev = "call" /\ last.hit /\ last.key = "bonzo:Market"
    /\ calls = 2 /\ netCalls["c1"] = 1
    /\ \E s \in Slots : tasks[s] # Idle /\ tasks[s].st = "ready"
                        /\ tasks[s].data = cache["c1"]["bonzo:Market"].data

\* C2: a request is answered from the cache if and only if the entry of its
\* key is strictly younger than cacheTtl * 1000 milliseconds; at exactly that
\* age it is a miss that calls the network.
C2_HitIffYoungerThanTtl ==
    [][\A s \in Started :
          LET tk == tasks'[s]
              fresh == Fresh(cache'[tk.c], tk.key, cacheTtl[tk.c])
          IN  /\ tk.st = "ready" <=> fresh
              /\ tk.st = "waiting" <=> ~fresh
              /\ ~fresh => netCalls'[tk.c] = netCalls[tk.c] + 1]_vars

\* A call finds an entry that is exactly cacheTtl * 1000 milliseconds old,
\* and calls the network.
C2_Witness ==
    /\ last.ev = "call" /\ ~last.hit
    /\ last.key \in DOMAIN cache["c1"]
    /\ now - cache["c1"][last.key].timestamp = cacheTtl["c1"] * MillisPerSecond
    /\ \E s \in Slots : tasks[s] # Idle /\ tasks[s].st = "waiting" /\ tasks[s].key = last.key

\* C3: when the network call of getNetworkSupply fails in any way, the
\* accessor returns without raising, with totalSupply 0, circulatingSupply 0
\* and a timestamp that is a Date.
C3_NetworkSupplyFailsOpen ==
    (last.ev = "response" /\ last.op = "getNetworkSupply" /\ TransportFailed(last.outcome)) =>
        /\ last.done /\ last.raised = ""
        /\ last.result.t = "object"
        /\ last.result.f.totalSupply = Num(0)
        /\ last.result.f.circulatingSupply = Num(0)
        /\ last.result.f.timestamp = DateOf(now)

\* The call of getNetworkSupply timed out, with an older payload of
\* network/supply still in the cache, and the accessor returned.
C3_Witness ==
    /\ last.ev = "response" /\ last.op = "getNetworkSupply"
    /\ ~last.outcome.resolved /\ last.outcome.code = "ECONNABORTED"
    /\ last.done /\ last.raised = ""
    /\ "network/supply:{}" \in DOMAIN cache["c1"]

\* C4: an accessor called with valid arguments returns a value and raises
\* nothing, whatever its network calls come to: a failure, a status other
\* than 200, a body of unexpected shape.
C4_ValidCallsNeverRaise ==
    (last.done /\ last.op \in Accessors /\ ValidArgs(last.op, last.args)) =>
        last.raised = ""

\* getNetworkNodes() has raised a TypeError on a body whose nodes array holds
\* null.
C4_Witness ==
    /\ last.done /\ last.op = "getNetworkNodes" /\ last.raised = "TypeError"
    /\ last.outcome = Resolved(200, Obj([nodes |-> Arr(<<Null>>)]))

\* C5: getAccountInfo, getAccountBalance and getAccountTokens called with an
\* id that is no account id, and getTokenInfo called with an empty id or one
\* that does not start with "0.0.", fail with the validation error, start no
\* request and leave the cache and the call counts as they were.
C5_IdValidationBeforeEffects ==
    [][IsCall =>
          /\ (/\ last'.op \in {"getAccountInfo", "getAccountBalance", "getAccountTokens"}
              /\ ~IsAccountId(last'.args.id)) =>
                  /\ last'.done
                  /\ last'.raised = "Invalid account ID format: " \o Join(last'.args.id)
                  /\ NoEffect
          /\ (last'.op = "getTokenInfo" /\ ~HasIdPrefix(last'.args.id)) =>
                  /\ last'.done
                  /\ last'.raised = "Invalid token ID format: " \o Join(last'.args.id)
                  /\ NoEffect]_vars

\* getAccountBalance("0.0.2x") was rejected when the cache held an entry and
\* a count was recorded, after one network call.
C5_Witness ==
    /\ last.ev = "call" /\ last.op = "getAccountBalance"
    /\ last.args.id = <<"0", ".", "0", ".", "2", "x">>
    /\ last.raised # ""
    /\ cache["c1"] # <<>> /\ callCounts["c1"] # <<>> /\ netCalls["c1"] = 1

\* C6: getTopTokens raises 'Limit must be between 1 and 1000' for a limit
\* below 1 or above 1000, starting no request, writing no cache entry and
\* counting no call; for a limit in 1..1000 it raises no validation error.
C6_LimitValidationBeforeEffects ==
    [][(IsCall /\ last'.op = "getTopTokens") =>
          IF Greater(Num(1), last'.args.limit) \/ Greater(last'.args.limit, Num(1000))
          THEN /\ last'.done
               /\ last'.raised = "Limit must be between 1 and 1000"
               /\ NoEffect
          ELSE /\ last'.raised = ""
               /\ ~last'.done]_vars

\* getTopTokens(0.5) has passed the validation and asks the mirror node for
\* tokens with limit 0.5.
C6_Witness ==
    /\ last.ev = "call" /\ last.op = "getTopTokens" /\ last.args.limit = Rat(1, 2)
    /\ last.raised = "" /\ ~last.done
    /\ last.key = "tokens:{\"type\":\"FUNGIBLE_COMMON\",\"limit\":0.5,\"order\":\"asc\"}"
    /\ netCalls["c1"] = 1

\* C7: the count recorded for getNetworkSupply is the number of calls of
\* getNetworkSupply since construction or the last reset, whether they were
\* answered from the cache, from the network or by a failed fetch.
C7_NetworkSupplyCountIsCalls ==
    CountOf("c1", "getNetworkSupply") = invoked["c1"]["getNetworkSupply"]

\* Two calls of getNetworkSupply, the second answered from the cache, are
\* counted as two.
C7_Witness ==
    /\ invoked["c1"]["getNetworkSupply"] = 2
    /\ CountOf("c1", "getNetworkSupply") = 2
    /\ last.ev = "call" /\ last.op = "getNetworkSupply" /\ last.hit

\* C8: each call of an accessor adds one to the count recorded under the
\* name of that accessor.
C8_EachCallCountedUnderOwnName ==
    [][IsCall =>
          CountIn(callCounts'[last'.c], last'.op) = CountIn(callCounts[last'.c], last'.op) + 1]_vars

\* C9: when the DEX TVL and the lending TVL of the summary are both 0, the
\* total is 0 and both percentages are 0; when the network calls of all its
\* requests fail, the summary returns just that.
C9_ZeroTotalZeroShares ==
    /\ (/\ SummaryReturned
        /\ last.result.f.saucerswap.f.tvlUsd = Num(0)
        /\ last.result.f.bonzoFinance.f.tvlUsd = Num(0)) =>
            /\ last.result.f.totalLiquidityUsd = Num(0)
            /\ last.result.f.protocolDistribution.f.dexPercentage = Num(0)
            /\ last.result.f.protocolDistribution.f.lendingPercentage = Num(0)
    /\ (/\ last.done /\ last.op = "getCrossProtocolLiquiditySummary"
        /\ \A i \in 1..Len(last.outs) : RequestFailed(last.outs[i])) =>
            /\ SummaryReturned
            /\ last.result.f.totalLiquidityUsd = Num(0)
            /\ last.result.f.protocolDistribution.f.dexPercentage = Num(0)
            /\ last.result.f.protocolDistribution.f.lendingPercentage = Num(0)

\* The summary has returned a total of 0 after the network calls of its three
\* requests failed.
C9_Witness ==
    /\ SummaryReturned
    /\ Len(last.outs) = 3 /\ \A i \in 1..3 : RequestFailed(last.outs[i])
    /\ last.result.f.totalLiquidityUsd = Num(0)

\* C10: when the total of the summary is not 0, its two percentages add up
\* to 100.
C10_SharesAddUpTo100 ==
    (SummaryReturned /\ last.result.f.totalLiquidityUsd # Num(0)) =>
        Plus(last.result.f.protocolDistribution.f.dexPercentage,
             last.result.f.protocolDistribution.f.lendingPercentage) = Num(100)

\* The summary has returned a total that is NaN, with both percentages 0,
\* for a lending market whose total supplied displays "N/A".
C10_Witness ==
    /\ SummaryReturned
    /\ last.result.f.totalLiquidityUsd = NaN
    /\ last.result.f.protocolDistribution.f.dexPercentage = Num(0)
    /\ last.result.f.protocolDistribution.f.lendingPercentage = Num(0)

\* C11: the total of the summary is the DEX TVL (tvlUsd of the stats) plus
\* the lending TVL, the number parsed from the string the lending payload
\* displays its total supplied with, in snake_case as in camelCase.
C11_TotalIsDexPlusLending ==
    (/\ SummaryReturned /\ Len(last.outs) = 3
     /\ Fetched(last.outs[1]) /\ Fetched(last.outs[3])) =>
        last.result.f.totalLiquidityUsd =
            Plus(Get(last.outs[1].data, "tvlUsd"),
                 parseUsdValue(DisplayedSupply(last.outs[3].data)))

\* The summary has returned a lending TVL of 0 and the DEX TVL as the total
\* for a lending payload that displays "$1,500.50" in snake_case.
C11_Witness ==
    /\ SummaryReturned /\ Len(last.outs) = 3
    /\ Fetched(last.outs[1]) /\ Fetched(last.outs[3])
    /\ DisplayedSupply(last.outs[3].data) = Str(<<"$", "1", ",", "5", "0", "0", ".", "5", "0">>)
    /\ Get(last.outs[3].data, "total_market_supplied") # Undefined
    /\ last.result.f.bonzoFinance.f.tvlUsd = Num(0)
    /\ last.result.f.totalLiquidityUsd = Get(last.outs[1].data, "tvlUsd")

C13_SummaryCachedByConstituents ==
    SummaryReturned =>
        /\ (Len(last.outs) = 3 /\ \A i \in 1..3 : Fetched(last.outs[i])) =>
                DOMAIN cache[last.c] = SummaryKeys
        /\ PriorStillFresh(last.c) =>
                /\ netCalls[last.c] = last.prior.net
                /\ Business(last.result) = last.prior.business

\* A second summary, half a second after the first one fetched its three
\* bodies, has returned the same total of 1000 with three network calls made
\* in all.
C13_Witness ==
    /\ SummaryReturned /\ PriorStillFresh("c1")
    /\ \A k \in SummaryKeys : now = cache["c1"][k].timestamp + 500
    /\ calls = 2 /\ netCalls["c1"] = 3
    /\ last.outs = <<Undefined, Undefined, Undefined>>
    /\ last.result.f.totalLiquidityUsd = Num(1000)
    /\ last.prior.business.totalLiquidityUsd = Num(1000)

\* C14: getNetworkSupply, getNetworkNodes (each item), getSaucerSwapStats and
\* getBonzoMarkets (the record and each of its reserves) return records in
\* which no declared field is undefined, whatever the request returned; after
\* a failed fetch getSaucerSwapStats returns tvlUsd, volumeTotalUsd,
\* swapTotal and circulatingSauce equal to 0.
C14_RecordsFullyPopulated ==
    (last.done /\ last.raised = "") =>
        /\ last.op = "getNetworkSupply" => Populated(last.result, SupplyFields)
        /\ last.op = "getNetworkNodes" => AllPopulated(last.result, NodeFields)
        /\ last.op = "getSaucerSwapStats" =>
                /\ Populated(last.result, StatsFields)
                /\ RequestFailed(last.outcome) =>
                        \A k \in StatsFields : Get(last.result, k) = Num(0)
        /\ last.op = "getBonzoMarkets" =>
                /\ Populated(last.result, MarketFields)
                /\ AllPopulated(Get(last.result, "reserves"), ReserveFields)

\* getSaucerSwapStats() has returned the empty object, whose tvlUsd is
\* undefined, after its request timed out.
C14_Witness ==
    /\ last.done /\ last.op = "getSaucerSwapStats" /\ last.raised = ""
    /\ last.outcome = Rejected(TRUE, 0, "ECONNABORTED")
    /\ last.result = EmptyObject
    /\ Get(last.result, "tvlUsd") = Undefined

\* C15: for each field of a lending reserve that has a snake_case and a
\* camelCase upstream name, getBonzoMarkets outputs the value the raw reserve
\* has under the one name that is present, 0 and false included, and the zero
\* or empty default of the field when neither name is present.
C15_ReserveNamesTolerated ==
    (/\ last.done /\ last.op = "getBonzoMarkets" /\ last.raised = ""
     /\ Fetched(last.outcome) /\ last.outcome.data.t = "object"
     /\ IsArray(Get(last.outcome.data, "reserves"))) =>
        LET raw == Get(last.outcome.data, "reserves")
            reserves == Get(last.result, "reserves")
        IN  /\ IsArray(reserves) /\ Len(reserves.a) = Len(raw.a)
            /\ \A i \in 1..Len(raw.a) : \A nm \in ReserveNames :
                  LET snake == nm[1]
                      camel == nm[2]
                      out == Get(reserves.a[i], camel)
                  IN  /\ (snake \in DOMAIN raw.a[i].f /\ camel \notin DOMAIN raw.a[i].f) =>
                              out = raw.a[i].f[snake]
                      /\ (camel \in DOMAIN raw.a[i].f /\ snake \notin DOMAIN raw.a[i].f) =>
                              out = raw.a[i].f[camel]
                      /\ (/\ snake \notin DOMAIN raw.a[i].f /\ camel \notin DOMAIN raw.a[i].f
                          /\ camel \in DOMAIN ReserveDefaults) =>
                              out = ReserveDefaults[camel]

\* getBonzoMarkets() has returned a reserve whose stableBorrowingEnabled and
\* stableBorrowApy are undefined for a raw reserve with
\* stable_borrowing_enabled false and stable_borrow_apy 0.
C15_Witness ==
    /\ last.done /\ last.op = "getBonzoMarkets" /\ last.raised = ""
    /\ Fetched(last.outcome) /\ last.outcome.data \in MarketReserves
    /\ Get(Get(last.outcome.data, "reserves").a[1], "stable_borrowing_enabled") = Bool(FALSE)
    /\ Get(Get(last.outcome.data, "reserves").a[1], "stable_borrow_apy") = Num(0)
    /\ Get(Get(last.result, "reserves").a[1], "stableBorrowingEnabled") = Undefined
    /\ Get(Get(last.result, "reserves").a[1], "stableBorrowApy") = Undefined
    /\ Get(Get(last.result, "reserves").a[1], "supplyApy") = Num(0)

\* C16: no step of a client (a fetch, its response, clearCache,
\* resetCallCounts) changes the cache or the call counts of another client.
C16_ClientsIndependent ==
    [][\A c \in Clients :
          last'.c # c => cache'[c] = cache[c] /\ callCounts'[c] = callCounts[c]]_vars

\* Client c2 has cleared its cache after a fetch of its own, and client c1
\* still has its entry and its count.
C16_Witness ==
    /\ WasSync("c2", "clearCache")
    /\ netCalls["c2"] = 1 /\ cache["c2"] = <<>>
    /\ "network/supply:{}" \in DOMAIN cache["c1"]
    /\ CountOf("c1", "getNetworkSupply") = 1

\* C17: resetCallCounts leaves no method with a count (a report read right
\* after it has totalCalls 0, uniqueMethods 0 and no excessive method) and
\* leaves the cache as it was; clearCache leaves the cache empty (cache
\* statistics read right after it have size 0 and no keys) and leaves the
\* call counts as they were.
C17_ResetAndClearAreSeparate ==
    [][\A c \in Clients :
          /\ IsSync(c, "resetCallCounts") =>
                  /\ \A m \in Accessors : CountIn(callCounts'[c], m) = 0
                  /\ DOMAIN callCounts'[c] = {}
                  /\ cache' = cache
          /\ (WasSync(c, "resetCallCounts") /\ IsSync(c, "showCallStatistics")) =>
                  /\ last'.result.totalCalls = 0
                  /\ last'.result.uniqueMethods = 0
                  /\ last'.result.excessiveMethods = {}
          /\ IsSync(c, "clearCache") =>
                  /\ cache'[c] = <<>>
                  /\ callCounts' = callCounts
          /\ (WasSync(c, "clearCache") /\ IsSync(c, "getCacheStats")) =>
                  /\ last'.result.size = 0
                  /\ last'.result.entries = {}]_vars

\* A report read after a fetch and a reset has totalCalls 0 and
\* uniqueMethods 0, and the entry the fetch stored is still in the cache.
C17_Witness ==
    /\ WasSync("c1", "showCallStatistics")
    /\ last.result.totalCalls = 0 /\ last.result.uniqueMethods = 0
    /\ netCalls["c1"] = 1 /\ calls = 3
    /\ "network/supply:{}" \in DOMAIN cache["c1"]

\* C18: every accessor that has called the network returns, even when the
\* upstream never answers; no request waits longer than the timeout of its
\* client; a request that times out writes no cache entry and
\* getNetworkSupply then returns totalSupply 0; and a request that waits is
\* ended only by its answer or by its timer, not by any other call.
C18_TimeoutBoundsEveryCall ==
    /\ \A s \in Slots : (tasks[s] # Idle) ~> (tasks[s] = Idle)
    /\ [](\A s \in Waiting : now - tasks[s].sent <= timeout[tasks[s].c])
    /\ [][\A s \in Waiting :
             tasks'[s] # tasks[s] =>
                 /\ last'.ev = "response" /\ last'.rkey = tasks[s].key
                 /\ (last'.outcome = Rejected(TRUE, 0, "ECONNABORTED")) =>
                         /\ now - tasks[s].sent = timeout[tasks[s].c]
                         /\ cache' = cache
                         /\ last'.op = "getNetworkSupply" =>
                                 /\ last'.done /\ last'.raised = ""
                                 /\ last'.result.f.totalSupply = Num(0)]_vars

\* getNetworkSupply() has returned totalSupply 0, one timeout after its
\* call, to an upstream that did not answer; the cache holds no entry.
C18_Witness ==
    /\ last.ev = "response" /\ last.op = "getNetworkSupply" /\ last.done
    /\ last.outcome = Rejected(TRUE, 0, "ECONNABORTED")
    /\ last.result.f.totalSupply = Num(0)
    /\ now = timeout["c1"] /\ calls = 1
    /\ cache["c1"] = <<>>

\* C19: the client retries a request that failed: when an accessor returns
\* right after the network call of its request failed, that was not the only
\* network call made for the request.  (The accessors of SpecCache make one
\* request each, so outs lists the network calls made for that request.)
C19_FailedRequestIsRetried ==
    (last.ev = "response" /\ last.done /\ RequestFailed(last.outcome)) =>
        Len(last.outs) >= 2

\* getNetworkSupply() has returned its default after the one network call
\* of its request was rejected with a 500, in a client that made no other.
C19_Witness ==
    /\ last.ev = "response" /\ last.op = "getNetworkSupply" /\ last.done
    /\ last.outcome = Rejected(TRUE, 500, "")
    /\ last.outs = <<Rejected(TRUE, 500, "")>>
    /\ netCalls["c1"] = 1 /\ calls = 1
    /\ last.result.f.totalSupply = Num(0)

\* The fetch failed: the network call was rejected (no connection, the
\* timeout, an error status), or resolved with a status other than 200 or
\* with an empty body.
FetchFailed(o) == ~o.resolved \/ o.status # 200 \/ ~Truthy(o.data)

\* C20: a fetch that fails writes nothing, and its caller receives the empty
\* sentinel whatever the cache holds under the key; an entry of the cache is
\* written only by the 200 response to the request of its key, with the body
\* of that response.
C20_FailedFetchWritesNothing ==
    [][/\ (last'.ev = "response" /\ FetchFailed(last'.outcome)) =>
              /\ cache' = cache
              /\ last'.rdata = EmptyObject
       /\ \A c \in Clients : \A k \in DOMAIN cache'[c] :
              (k \notin DOMAIN cache[c] \/ cache'[c][k] # cache[c][k]) =>
                  /\ last'.ev = "response" /\ last'.c = c /\ last'.rkey = k
                  /\ last'.outcome.resolved /\ last'.outcome.status = 200
                  /\ cache'[c][k].data = last'.outcome.data]_vars

\* The DEX answered the request of getSaucerSwapStats() with a 201 and a
\* body: nothing was cached, and the request returned the body.
C20_Witness ==
    /\ last.ev = "response" /\ last.op = "getSaucerSwapStats"
    /\ last.outcome.resolved /\ last.outcome.status = 201 /\ Truthy(last.outcome.data)
    /\ ~last.stored /\ cache["c1"] = <<>>
    /\ last.rdata = last.outcome.data /\ last.rdata # EmptyObject

\* C21: only clearCache removes a cache entry.  Every other step keeps every
\* key; it changes an entry only by the 200 response to the request of its
\* key, which overwrites it; and getCacheStats lists every key the cache
\* holds, the expired ones too.
C21_OnlyClearCacheRemoves ==
    [][\A c \in Clients :
          /\ ~(last'.ev = "sync" /\ last'.op = "clearCache" /\ last'.c = c) =>
                 /\ DOMAIN cache[c] \subseteq DOMAIN cache'[c]
                 /\ \A k \in DOMAIN cache[c] :
                        cache'[c][k] # cache[c][k] =>
                            /\ last'.ev = "response" /\ last'.c = c /\ last'.rkey = k
                            /\ last'.stored
                            /\ cache'[c][k] = [data |-> last'.outcome.data, timestamp |-> now]
          /\ (last'.ev = "sync" /\ last'.op = "getCacheStats" /\ last'.c = c) =>
                 /\ last'.result.entries = DOMAIN cache[c]
                 /\ last'.result.size = Cardinality(DOMAIN cache[c])
                 /\ cache' = cache]_vars

\* getCacheStats() lists the key of network/supply although the entry is
\* older than the window.
C21_Witness ==
    /\ last.ev = "sync" /\ last.op = "getCacheStats"
    /\ last.result.entries = {RequestCacheKey("network/supply", <<>>)}
    /\ ~Fresh(cache["c1"], RequestCacheKey("network/supply", <<>>), cacheTtl["c1"])

\* The window a client is to use, in seconds: the cacheTtl it was configured
\* with, 60 when it was configured with none.
WindowOf(configured) == IF configured = Undefined THEN 60 ELSE configured.n

\* C22: the window of every request path is the configured cacheTtl (60
\* seconds when none is configured), whatever value is configured, 0
\* included: a request is answered from the cache if and only if the entry
\* of its key is younger than that window, for every key, and the window of
\* a client never changes.
C22_WindowIsConfiguredTtl ==
    [][/\ cacheTtl' = cacheTtl
       /\ \A s \in Started :
              LET tk == tasks'[s]
              IN  tk.st = "ready" <=>
                      /\ tk.key \in DOMAIN cache'[tk.c]
                      /\ now - cache'[tk.c][tk.key].timestamp
                            < WindowOf(TtlConfig[tk.c].cacheTtl) * MillisPerSecond]_vars

\* The client configured with cacheTtl 0 answers the second
\* getSaucerSwapStats() from the cache, without a network call.
C22_Witness ==
    /\ TtlConfig["c1"].cacheTtl = Num(0)
    /\ last.ev = "call" /\ last.c = "c1" /\ last.op = "getSaucerSwapStats" /\ last.hit
    /\ invoked["c1"]["getSaucerSwapStats"] = 2 /\ netCalls["c1"] = 1
    /\ cacheTtl["c1"] = DefaultCacheTtl

\* A request: its source, its path and its query parameters.
RequestOf(name, args) ==
    [src |-> LeafOf(name, args).src, path |-> LeafOf(name, args).path,
     params |-> LeafOf(name, args).params]

KeyOf(r) == CacheKey(r.src, r.path, r.params)

\* The calls that pass their validation, and the requests they make.
ValidInputs ==
    {x \in ({<<op, Args(id, Undefined, "", Undefined)>> :
                 op \in {"getAccountInfo", "getAccountBalance", "getAccountTokens",
                         "getTokenInfo"}, id \in Ids}
             \cup {<<"getTopTokens", Args(<<>>, limit, sortBy, Undefined)>> :
                       limit \in Limits, sortBy \in SortBys}
             \cup {<<op, NoArgs>> :
                       op \in Accessors \ {"getAccountInfo", "getAccountBalance",
                                           "getAccountTokens", "getTokenInfo",
                                           "getTopTokens"}}) :
        ValidationError(x[1], x[2]) = ""}

Requested ==
    UNION {{RequestOf(Program(x[1], x[2])[i], x[2]) : i \in 1..Len(Program(x[1], x[2]))} :
              x \in ValidInputs}

\* The cache key of each of these requests.
KeyOfRequested == [r \in Requested |-> KeyOf(r)]

\* The request task tk is at.
RequestAt(tk) == RequestOf(tk.leaf, tk.args)

\* C23: requests that differ in source, path or parameters have different
\* cache keys; the key a call looks up and writes is the key of its own
\* request, so that a response is stored under the key of its request and
\* under no other, and a call answered from the cache gets the entry of its
\* own request.
C23_CacheKeysInjective ==
    /\ [](/\ \A r1, r2 \in Requested : KeyOfRequested[r1] = KeyOfRequested[r2] => r1 = r2
          /\ \A s \in Busy : /\ RequestAt(tasks[s]) \in Requested
                              /\ tasks[s].key = KeyOfRequested[RequestAt(tasks[s])]
          /\ \A c \in Clients : \A k \in DOMAIN cache[c] :
                 \E r \in Requested : KeyOfRequested[r] = k)
    /\ [][/\ \A s \in Waiting :
                 (tasks'[s] # tasks[s] /\ last'.stored) =>
                     \A r \in Requested :
                         IF r = RequestAt(tasks[s])
                         THEN cache'[tasks[s].c][KeyOfRequested[r]].data = last'.outcome.data
                         ELSE \/ /\ KeyOfRequested[r] \notin DOMAIN cache'[tasks[s].c]
                                 /\ KeyOfRequested[r] \notin DOMAIN cache[tasks[s].c]
                              \/ /\ KeyOfRequested[r] \in DOMAIN cache[tasks[s].c]
                                 /\ cache'[tasks[s].c][KeyOfRequested[r]]
                                       = cache[tasks[s].c][KeyOfRequested[r]]
          /\ \A s \in Started :
                 tasks'[s].st = "ready" =>
                     tasks'[s].data
                       = cache'[tasks'[s].c][KeyOfRequested[RequestAt(tasks'[s])]].data]_vars

\* getTopTokens() has stored the token lists of the mirror node and of the
\* DEX, both of path tokens, under two keys, and the getSaucerSwapTokens()
\* that follows is answered with the list of the DEX.
C23_Witness ==
    /\ last.ev = "call" /\ last.op = "getSaucerSwapTokens" /\ last.hit
    /\ last.key = "saucer:tokens"
    /\ \E k \in DOMAIN cache["c1"] :
           /\ k # "saucer:tokens"
           /\ \E r \in Requested : r.src = "mirror" /\ r.path = "tokens" /\ KeyOf(r) = k
           /\ cache["c1"][k].data # cache["c1"]["saucer:tokens"].data
    /\ \E s \in Slots : tasks[s] # Idle /\ tasks[s].st = "ready"
                        /\ tasks[s].data = cache["c1"]["saucer:tokens"].data

\* The methods the accessors of SpecStats are counted under.
Tracked == {"getNetworkSupply", "getSaucerSwapStats"}

\* C24: the report of showCallStatistics gives the counts as they are, their
\* sum, the number of methods counted and exactly the methods counted more
\* than 10 times; trackCall warns exactly on the calls that bring the count
\* of the method above 5; the report changes neither cache nor counts, the
\* tracking does not change the cache, and what an accessor returns is what
\* it makes of the payload of its request, whatever the counts.
C24_StatisticsAreSumsAndAdvisory ==
    [][/\ (last'.ev = "sync" /\ last'.op = "showCallStatistics") =>
              /\ DOMAIN callCounts[last'.c] \subseteq Tracked
              /\ last'.result.callCounts = callCounts[last'.c]
              /\ last'.result.totalCalls = CountOf(last'.c, "getNetworkSupply")
                                            + CountOf(last'.c, "getSaucerSwapStats")
              /\ last'.result.uniqueMethods = Cardinality(DOMAIN callCounts[last'.c])
              /\ last'.result.excessiveMethods
                    = {m \in Tracked : CountOf(last'.c, m) > 10}
              /\ cache' = cache /\ callCounts' = callCounts
       /\ last'.ev = "call" =>
              /\ cache' = cache
              /\ CountIn(callCounts'[last'.c], last'.op) = CountOf(last'.c, last'.op) + 1
              /\ last'.advice = last'.op <=> CountOf(last'.c, last'.op) + 1 > 5
              /\ last'.advice \in {"", last'.op}
       /\ (last'.ev \in {"resume", "response"} /\ last'.done) =>
              \E s \in Slots :
                  /\ tasks[s] # Idle /\ tasks'[s] = Idle
                  /\ last'.result
                        = LeafResult(tasks[s].leaf, tasks[s].args,
                                     IF last'.ev = "resume" THEN tasks[s].data ELSE last'.rdata,
                                     now)]_vars

\* The report counts getSaucerSwapStats 11 times and names it excessive; the
\* eleventh call was answered from the cache with the record the first got.
C24_Witness ==
    /\ last.ev = "sync" /\ last.op = "showCallStatistics"
    /\ last.result.totalCalls = 11 /\ last.result.uniqueMethods = 1
    /\ last.result.excessiveMethods = {"getSaucerSwapStats"}
    /\ netCalls["c1"] = 1 /\ "saucer:stats" \in DOMAIN cache["c1"]

\* parseUsdValue(usdString) has returned.
ParsedUsd == last.ev = "util" /\ last.op = "parseUsdValue"

\* Amounts, and the numbers they display.
UsdAmounts ==
    {<<Str(<<"$", "1", ",", "2", "3", "4", ",", "5", "6", "7", ".", "8", "9">>), Rat(123456789, 100)>>,
     <<Str(<<"$", "1", ",", "5", "0", "0", ".", "5", "0">>), Rat(3001, 2)>>,
     <<Str(<<"$", "$", "1", ",", ",", "0">>), Num(10)>>,
     <<Str(<<"7">>), Num(7)>>}

\* Strings that are no numbers.
UsdUnparsable == {Str(<<"N", "/", "A">>), Str(<<"a", "b", "c">>), Str(<<"$">>)}

\* C25: parseUsdValue returns the number the string displays once its '$'
\* and ',' are removed; 0 for the empty string, an absent value, '0' and a
\* string that is no number; never NaN.
C25_ParseUsdValueNeverNaN ==
    ParsedUsd =>
        /\ last.result # NaN
        /\ \A a \in UsdAmounts : last.args.usdString = a[1] => last.result = a[2]
        /\ last.args.usdString \in {Undefined, Null, Str(<<>>), Str(<<"0">>)} \cup UsdUnparsable
              => last.result = Num(0)

\* parseUsdValue('N/A') has returned NaN.
C25_Witness ==
    /\ ParsedUsd
    /\ last.args.usdString = Str(<<"N", "/", "A">>)
    /\ last.result = NaN

\* retryWithBackoff was called.
Retrying == retry.st # "idle"

\* min(baseDelay * 2^(k-1), maxDelay), for the call that is running.
DelayAfter(k) ==
    IF retry.baseDelay * Power2(k - 1) <= retry.maxDelay
    THEN retry.baseDelay * Power2(k - 1) ELSE retry.maxDelay

\* C29: retryWithBackoff invokes fn one invocation after the other, at most
\* maxRetries times; it returns what the first invocation that succeeds
\* returns and invokes fn no more; after the k-th failure, k < maxRetries, it
\* waits min(baseDelay * 2^(k-1), maxDelay); after the maxRetries-th failure
\* it throws the error of that failure without another wait; for maxRetries
\* <= 0 it throws 'Max retries exceeded' and never invokes fn.
C29_RetryWithBackoff ==
    /\ [](Retrying =>
            /\ retry.invocations > 0 => LessEq(Num(retry.invocations), retry.maxRetries)
            /\ retry.invocations
                  = Len(retry.errors) + (IF retry.st \in {"calling", "returned"} THEN 1 ELSE 0)
            /\ retry.st = "returned" => retry.result \in FnValues
            /\ Len(retry.waits)
                  = Len(retry.errors) - (IF retry.st = "sleeping"
                                            \/ (/\ retry.st = "thrown" /\ retry.errors # <<>>
                                                /\ Num(Len(retry.errors)) = retry.maxRetries)
                                         THEN 1 ELSE 0)
            /\ \A k \in 1..Len(retry.waits) :
                   /\ retry.waits[k] = DelayAfter(k)
                   /\ Greater(retry.maxRetries, Num(k))
            /\ retry.st = "sleeping" =>
                   /\ retry.until - now = DelayAfter(Len(retry.errors))
                   /\ Greater(retry.maxRetries, Num(Len(retry.errors)))
            /\ (retry.errors # <<>> /\ Num(Len(retry.errors)) = retry.maxRetries) =>
                   /\ retry.st = "thrown"
                   /\ retry.error = retry.errors[Len(retry.errors)]
            /\ LessEq(retry.maxRetries, Num(0)) =>
                   /\ retry.st = "thrown" /\ retry.error = "Max retries exceeded"
                   /\ retry.invocations = 0 /\ retry.waits = <<>>)
    /\ [][(retry.st \in {"returned", "thrown"} /\ retry' # retry) =>
              /\ calls' = calls + 1
              /\ retry'.errors = <<>> /\ retry'.waits = <<>>]_vars

\* retryWithBackoff(fn, 4, 4000, 10000) has thrown what the fourth
\* invocation of fn threw, after waits of 4000, 8000 and 10000.
C29_Witness ==
    /\ retry.st = "thrown" /\ retry.maxRetries = Num(4)
    /\ retry.invocations = 4
    /\ retry.waits = <<4000, 8000, 10000>>
    /\ retry.errors = <<"e1", "e1", "e1", "e2">> /\ retry.error = "e2"
    /\ now = 22000

\* C26: what an accessor returns is determined by the payload its request
\* returned (the empty object of a failed fetch included): the call gets the
\* record that a call receiving the same payload at time 0 gets.
C26_NormalisationDeterministic ==
    [][(last'.ev \in {"resume", "response"} /\ last'.done /\ last'.raised = "") =>
          \E s \in Slots :
              /\ tasks[s] # Idle /\ tasks'[s] = Idle
              /\ last'.result
                    = LeafResult(tasks[s].leaf, tasks[s].args,
                                 IF last'.ev = "resume" THEN tasks[s].data ELSE last'.rdata,
                                 0)]_vars

\* The second getNetworkSupply() of a client whose fetches both failed has
\* returned, for the same empty object, a record with another timestamp
\* than the first: the time of its own return.
C26_Witness ==
    /\ last.ev = "response" /\ last.op = "getNetworkSupply" /\ last.done
    /\ last.rdata = EmptyObject
    /\ invoked["c1"]["getNetworkSupply"] = 2 /\ netCalls["c1"] = 2
    /\ now > 0 /\ last.result.f.timestamp = DateOf(now)
    /\ last.result # NetworkSupplyOf(EmptyObject, 0)

\* The record getAllTokenImages returned in the last step, if it returned one.
ImagesReturned ==
    /\ last.op = "getAllTokenImages" /\ last.done /\ last.raised = ""
    /\ last.result.t = "object"

\* C30: in what getAllTokenImages returns, tokensWithImages is the number of
\* entries of allImages, pngImagesCount the number of entries of pngImages,
\* pngImagesCount + otherFormatCount = tokensWithImages with otherFormatCount
\* >= 0, tokensWithImages <= totalTokens, and pngImages is the part of
\* allImages whose isPng is true.
C30_ImageStatsConsistent ==
    ImagesReturned =>
        LET all == last.result.f.allImages.f
            png == last.result.f.pngImages.f
            stats == last.result.f.stats.f
        IN  /\ stats.tokensWithImages = Num(Cardinality(DOMAIN all))
            /\ stats.pngImagesCount = Num(Cardinality(DOMAIN png))
            /\ stats.pngImagesCount.n + stats.otherFormatCount.n = stats.tokensWithImages.n
            /\ stats.otherFormatCount.n >= 0
            /\ stats.tokensWithImages.n <= stats.totalTokens.n
            /\ DOMAIN png = {k \in DOMAIN all : all[k].f.isPng.b}
            /\ \A k \in DOMAIN png : png[k] = all[k]

\* getAllTokenImages has returned for a list of two tokens with one id and
\* PNG icons: one entry of allImages and of pngImages, pngImagesCount 2,
\* otherFormatCount -1.
C30_Witness ==
    /\ ImagesReturned
    /\ last.result.f.stats.f.totalTokens = Num(2)
    /\ Cardinality(DOMAIN last.result.f.allImages.f) = 1
    /\ Cardinality(DOMAIN last.result.f.pngImages.f) = 1
    /\ last.result.f.stats.f.pngImagesCount = Num(2)
    /\ last.result.f.stats.f.otherFormatCount = Num(-1)

\* The tasks among tks that wait for a network call of client c for key k.
InFlight(tks, c, k) ==
    {s \in Slots : tks[s].st = "waiting" /\ tks[s].c = c /\ tks[s].key = k}

\* C27: requests in flight are not shared.  A request the cache does not
\* answer makes its own network call, whether or not a call for its key is
\* in flight; and a 200 response that is stored leaves under its key its
\* own payload with the time of its arrival, whatever entry the key had and
\* whichever of the requests was started first.
C27_NoInFlightDeduplication ==
    [][\A c \in Clients :
          /\ (last'.c = c /\ last'.ev = "call" /\ ~last'.done /\ ~last'.hit) =>
                 /\ netCalls'[c] = netCalls[c] + 1
                 /\ Cardinality(InFlight(tasks', c, last'.key))
                      = Cardinality(InFlight(tasks, c, last'.key)) + 1
          /\ (last'.c = c /\ last'.ev = "response" /\ last'.stored) =>
                 /\ last'.rkey \in DOMAIN cache'[c]
                 /\ cache'[c][last'.rkey] = [data |-> last'.rdata, timestamp |-> now]]_vars

\* Two getNetworkSupply() calls of a client overlapped and made a network
\* call each; the response to the second came first and was stored, and the
\* response to the first, arriving later with another body, has replaced
\* that entry.
C27_Witness ==
    /\ last.ev = "response" /\ last.op = "getNetworkSupply" /\ last.stored
    /\ last.req = 1 /\ netCalls["c1"] = 2 /\ invoked["c1"]["getNetworkSupply"] = 2
    /\ Busy = {}
    /\ last.old # Undefined
    /\ last.old.data # last.rdata
    /\ cache["c1"][last.rkey] = [data |-> last.rdata, timestamp |-> now]

\* The network call came to a 200 with a body.
Successful(o) == o.resolved /\ o.status = Ok /\ Truthy(o.data)

\* clearCache of client c was the last step.
JustCleared(c) == last.ev = "sync" /\ last.op = "clearCache" /\ last.c = c

\* C28: clearCache empties the cache and leaves the requests in flight as
\* they are; the 200 response to a request that was in flight when the
\* cache was cleared is stored as any other, so that the cache holds its
\* entry although no request was started after the clear.
C28_ClearCacheKeepsInFlight ==
    [][\A c \in Clients :
          /\ (last'.ev = "sync" /\ last'.op = "clearCache" /\ last'.c = c) =>
                 /\ cache'[c] = <<>>
                 /\ tasks' = tasks /\ netCalls' = netCalls
          /\ (JustCleared(c) /\ last'.ev = "response" /\ last'.c = c) =>
                 /\ last'.cleared
                 /\ netCalls' = netCalls /\ calls' = calls
                 /\ last'.stored <=> Successful(last'.outcome)
                 /\ IF Successful(last'.outcome)
                    THEN /\ DOMAIN cache'[c] = {last'.rkey}
                         /\ cache'[c][last'.rkey]
                              = [data |-> last'.outcome.data, timestamp |-> now]
                    ELSE cache'[c] = <<>>]_vars

\* getNetworkSupply() made the one network call of the client, clearCache()
\* was called while it was in flight, and the 200 response that arrived
\* next has written the entry of network/supply into the cleared cache.
C28_Witness ==
    /\ last.ev = "response" /\ last.op = "getNetworkSupply" /\ last.cleared
    /\ last.stored /\ last.req = 1
    /\ netCalls["c1"] = 1 /\ invoked["c1"]["getNetworkSupply"] = 1 /\ calls = 2
    /\ DOMAIN cache["c1"] = {RequestCacheKey("network/supply", <<>>)}

====
